---- MODULE Spec2Model ----
(***************************************************************************)
(* Model of the TDash drift-detection core:                                *)
(*   - StateDriftDetector (src/src/drift/state-drift-detector.ts)          *)
(*   - getTerraformCommand / clearTerraformCommandCache                    *)
(*     (src/unnamed/part_002, imported as ../utils/terraform-command)      *)
(*   - WorkspaceManager (src/src/workspace/workspace-manager.ts)           *)
(*                                                                         *)
(* Text is modelled as a sequence of tokens (strings): a literal piece of  *)
(* text, one decimal digit, or one escape sequence.  The empty string is   *)
(* the empty sequence.  Time is in milliseconds, as Date.now() gives it.   *)
(***************************************************************************)
EXTENDS Integers, Sequences, FiniteSets, TLC

\* ------------------------------------------------------------------ bounds
\* Number of clock ticks the model lets pass.
MaxTicks == 2
\* Largest count the modelled plan summaries print.
MaxCount == 1
\* Largest number of files the analyzer finds.
MaxFiles == 3

\* ------------------------------------------------------- program constants
\* 5 * 60 * 1000: the age below which a cached DriftResult is returned.
RetentionMs == 5 * 60 * 1000
\* Granularity of the modelled clock: half the retention window, so that
\* ages below, at and above the window all occur.
TickMs == RetentionMs \div 2

Workspaces == {"default", "dev"}
\* The asynchronous callers that can be in flight together.
Callers == {"c1", "c2"}
Tools == {"tofu", "terraform"}

\* --------------------------------------------------------------- text model
Digits == {"0", "1", "2", "3", "4", "5", "6", "7", "8", "9"}
DigitVal(c) ==
  CASE c = "0" -> 0 [] c = "1" -> 1 [] c = "2" -> 2 [] c = "3" -> 3
    [] c = "4" -> 4 [] c = "5" -> 5 [] c = "6" -> 6 [] c = "7" -> 7
    [] c = "8" -> 8 [] c = "9" -> 9

\* Escape sequences matched by /\x1b\[[0-9;]*m/ (SGR colour codes).
AnsiCodes == {"ESC[0m", "ESC[1m", "ESC[32m"}

\* Mutant: the colour codes are left in the line.
KeepAnsi(line) == line

\* line.replace(ansiRegex, '')
RECURSIVE StripAnsi(_)
StripAnsi(line) ==
  IF line = <<>> THEN <<>>
  ELSE IF Head(line) \in AnsiCodes THEN StripAnsi(Tail(line))
  ELSE <<Head(line)>> \o StripAnsi(Tail(line))

\* String.prototype.includes for a token
Includes(line, tok) == \E i \in 1..Len(line) : line[i] = tok

\* parseInt of a run of decimal digits
RECURSIVE ParseInt(_)
ParseInt(ds) ==
  IF ds = <<>> THEN 0
  ELSE 10 * ParseInt(SubSeq(ds, 1, Len(ds) - 1)) + DigitVal(ds[Len(ds)])

\* Length of the longest run of digits of line that starts at position i.
RECURSIVE DigitRun(_, _)
DigitRun(line, i) ==
  IF i <= Len(line) /\ line[i] \in Digits THEN 1 + DigitRun(line, i + 1) ELSE 0

\* Length of the longest run of digits and dots of line that starts at i.
RECURSIVE VersionRun(_, _)
VersionRun(line, i) ==
  IF i <= Len(line) /\ line[i] \in Digits \cup {"."}
  THEN 1 + VersionRun(line, i + 1) ELSE 0

\* Pattern elements: a literal, (\d+), ([\d.]+), or an optional literal.
Lit(s) == [k |-> "lit", s |-> s]
Num == [k |-> "num", s |-> ""]
Ver == [k |-> "ver", s |-> ""]
Opt(s) == [k |-> "opt", s |-> s]

NoMatch == [ok |-> FALSE, caps |-> <<>>]

\* Match pattern elements j.. of pat against line from position i.
RECURSIVE MatchAt(_, _, _, _, _)
MatchAt(line, i, pat, j, caps) ==
  IF j > Len(pat) THEN [ok |-> TRUE, caps |-> caps]
  ELSE LET e == pat[j] IN
    CASE e.k = "lit" ->
           IF i <= Len(line) /\ line[i] = e.s
           THEN MatchAt(line, i + 1, pat, j + 1, caps) ELSE NoMatch
      [] e.k = "opt" ->
           IF i <= Len(line) /\ line[i] = e.s
           THEN MatchAt(line, i + 1, pat, j + 1, caps)
           ELSE MatchAt(line, i, pat, j + 1, caps)
      [] e.k = "num" ->
           LET n == DigitRun(line, i) IN
           IF n = 0 THEN NoMatch
           ELSE MatchAt(line, i + n, pat, j + 1,
                        Append(caps, SubSeq(line, i, i + n - 1)))
      [] e.k = "ver" ->
           LET n == VersionRun(line, i) IN
           IF n = 0 THEN NoMatch
           ELSE MatchAt(line, i + n, pat, j + 1,
                        Append(caps, SubSeq(line, i, i + n - 1)))

\* String.prototype.match with an unanchored, non-global pattern: the
\* leftmost match.
Least(S) == CHOOSE i \in S : \A h \in S : i <= h

MatchAmong(line, pat, hits) ==
  IF hits = {} THEN NoMatch ELSE MatchAt(line, Least(hits), pat, 1, <<>>)

RegexMatch(line, pat) ==
  MatchAmong(line, pat, {i \in 1..Len(line) : MatchAt(line, i, pat, 1, <<>>).ok})

PlanPrefix ==
  <<Lit("Plan:"), Lit(" "), Num, Lit(" to add, "), Num, Lit(" to change, "),
    Num, Lit(" to destroy")>>

\* The three summary formats, in the order the code tries them.
patterns ==
  << PlanPrefix \o <<Opt(".")>>,
     PlanPrefix \o <<Lit(", "), Num, Lit(" to replace"), Opt(".")>>,
     PlanPrefix \o <<Lit("!")>> >>

\* ------------------------------------------------------- generateDriftSummary
\* Decimal rendering of a small natural number, one token per digit.
DigitTok(d) ==
  CASE d = 0 -> "0" [] d = 1 -> "1" [] d = 2 -> "2" [] d = 3 -> "3"
    [] d = 4 -> "4" [] d = 5 -> "5" [] d = 6 -> "6" [] d = 7 -> "7"
    [] d = 8 -> "8" [] d = 9 -> "9"

RECURSIVE ToDigits(_)
ToDigits(n) == IF n < 10 THEN <<DigitTok(n)>>
               ELSE ToDigits(n \div 10) \o <<DigitTok(n % 10)>>

RECURSIVE Join(_, _)
Join(parts, sep) ==
  IF parts = <<>> THEN <<>>
  ELSE IF Len(parts) = 1 THEN parts[1]
  ELSE parts[1] \o <<sep>> \o Join(Tail(parts), sep)

\* if (n > 0) parts.push(`${n} to ...`)
Part(n, what) == IF n > 0 THEN <<ToDigits(n) \o <<what>>>> ELSE <<>>

\* Lines 171-175
SummaryOf(parts) ==
  IF Len(parts) = 0 THEN <<"No changes. Infrastructure is up-to-date.">>
  ELSE <<"Plan: ">> \o Join(parts, ", ")

generateDriftSummary(add, change, destroy) ==
  SummaryOf(Part(add, " to add") \o Part(change, " to change")
              \o Part(destroy, " to destroy"))

\* ------------------------------------------------------------ parsePlanOutput
\* The loop body of the first for-loop: the effect of one line on
\* (add, change, destroy, hasDrift).
FirstAmong(cleanLine, ms) ==
  IF ms = {} THEN NoMatch ELSE RegexMatch(cleanLine, patterns[Least(ms)])

FirstMatching(cleanLine) ==
  FirstAmong(cleanLine,
             {i \in 1..Len(patterns) : RegexMatch(cleanLine, patterns[i]).ok})

\* Mutant: drift decided by the additions alone.
HasDriftAddOnly(add, change, destroy) == add > 0

HasDriftOf(add, change, destroy) == add > 0 \/ change > 0 \/ destroy > 0

\* Lines 128-131
Counted(a, c, d) ==
  [add |-> a, change |-> c, destroy |-> d, hasDrift |-> HasDriftOf(a, c, d)]

\* Lines 127-133
OnMatch(acc, m) ==
  IF m.ok
  THEN Counted(ParseInt(m.caps[1]), ParseInt(m.caps[2]), ParseInt(m.caps[3]))
  ELSE acc

ScanLine(acc, line) ==
  IF Includes(line, "Plan:") THEN OnMatch(acc, FirstMatching(StripAnsi(line)))
  ELSE acc

RECURSIVE ScanLines(_, _)
ScanLines(acc, lines) ==
  IF lines = <<>> THEN acc
  ELSE ScanLines(ScanLine(acc, Head(lines)), Tail(lines))

\* The second loop: with all counts zero, a "No changes" / "No differences"
\* line sets hasDrift to false.
NoChangesCheck(acc, lines) ==
  IF acc.add = 0 /\ acc.change = 0 /\ acc.destroy = 0
     /\ \E i \in 1..Len(lines) :
          Includes(lines[i], "No changes") \/ Includes(lines[i], "No differences")
  THEN [acc EXCEPT !.hasDrift = FALSE]
  ELSE acc

\* ------------------------------------------------ the texts a plan prints
NumTok(n) == ToDigits(n)
Counts == 0..MaxCount

PlanLine(a, c, d) ==
  <<"Plan:", " ">> \o NumTok(a) \o <<" to add, ">> \o NumTok(c)
    \o <<" to change, ">> \o NumTok(d) \o <<" to destroy">>

NoChangesLine == <<"No changes", ". Your infrastructure matches the configuration.">>
OutputsLine == <<"Changes to Outputs:">>

\* The texts a plan prints, as the lines of output.split('\n').
Coloured(line) == <<"ESC[1m">> \o line \o <<"ESC[0m">>

\* The summary line as the tool colours it: "Plan:" in bold.
BoldPlanLine(a, c, d) ==
  <<"ESC[1m", "Plan:", "ESC[0m">> \o Tail(PlanLine(a, c, d)) \o <<".">>

NoDifferencesLine == <<"No differences", ", so no changes are needed.">>

PlanTexts ==
  { <<PlanLine(a, c, d) \o <<".">>>> : a \in Counts, c \in Counts, d \in Counts }
  \cup { <<Coloured(PlanLine(MaxCount, 0, MaxCount) \o <<".">>)>>,
         <<OutputsLine, BoldPlanLine(MaxCount, 0, 12)>>,
         <<NoDifferencesLine>>,
         <<OutputsLine, PlanLine(0, 0, 0) \o <<".">>>>,
         <<NoChangesLine>>, <<OutputsLine>>, <<>> }

\* One workspace and one plan result, for the specifications that vary
\* something else.
OneWorkspace == "default"

\* The two loops of parsePlanOutput (lines 106-146).
ParseCounts(output) ==
  NoChangesCheck(
    ScanLines([add |-> 0, change |-> 0, destroy |-> 0, hasDrift |-> FALSE], output),
    output)

\* What parsePlanOutput computes from the text alone (lines 105-152).
FieldsOf(acc) ==
  [hasDrift |-> acc.hasDrift,
   changes |-> [add |-> acc.add, change |-> acc.change, destroy |-> acc.destroy],
   details |-> generateDriftSummary(acc.add, acc.change, acc.destroy)]

ParsedFields(output) == FieldsOf(ParseCounts(output))

\* ParsedFields of the modelled texts, evaluated once.
ParsedTexts == [out \in PlanTexts |-> ParsedFields(out)]

\* Lines 148-155
ResultOf(f, workspace, t) ==
  [workspace |-> workspace,
   hasDrift |-> f.hasDrift,
   changes |-> f.changes,
   details |-> f.details,
   lastChecked |-> t]

parsePlanOutput(output, workspace, t) ==
  ResultOf(IF output \in DOMAIN ParsedTexts THEN ParsedTexts[output]
           ELSE ParsedFields(output),
           workspace, t)

\* ------------------------------------------------------------------- state
VARIABLES
  lastSelection,  \* history: the selection getTerraformCommand last returned
  staleSelection, \* history: the selection cached when the cache was last cleared
  sinceClear,     \* history: a getTerraformCommand call has completed since then
  now,            \* Date.now(), in ms
  driftCache,     \* StateDriftDetector.driftCache: workspace -> DriftResult
  cachedCommand,  \* module variable cachedCommand (null or a TerraformCommand)
  task,           \* per caller: the pending asynchronous call, if any
  installed,      \* environment: the tool binaries found on PATH
  selected,       \* environment: the workspace the tool has selected
  exited,         \* environment: the callers whose workspace select has exited with success
  lastExec,       \* the subprocesses started by the latest step
  lastResult,     \* the subprocess result the latest step consumed, if any
  evicted,        \* the cache entry refreshDrift deleted in the latest step
  returned,       \* the value a call returned in the latest step, if any
  target,         \* environment: what the path given to generate names
  run,            \* the generate command: its phase and what it holds
  dashboard,      \* the dashboard file the generate command wrote, if any
  analysis        \* TerraformAnalyzer: the operation under way and its loop

vars == <<now, driftCache, cachedCommand, task, installed, selected, exited, lastExec,
          lastResult, evicted, returned, lastSelection, staleSelection, sinceClear,
          target, run, dashboard, analysis>>

generation == <<target, run, dashboard, analysis>>

history == <<lastSelection, staleSelection, sinceClear>>

Idle == [op |-> "idle", ws |-> "-", at |-> "-"]
Null == [command |-> "null"]

Cmd(bin, args) == [bin |-> bin, args |-> args]
Ret(op, ws, value) == [op |-> op, ws |-> ws, value |-> value]

\* Mutant: a set that drops the entries of the other workspaces.
CacheSetOnly(cache, w, r) == [x \in {w} |-> r]

\* Map operations on driftCache
CacheSet(cache, w, r) ==
  [x \in DOMAIN cache \cup {w} |-> IF x = w THEN r ELSE cache[x]]
CacheDelete(cache, w) == [x \in DOMAIN cache \ {w} |-> cache[x]]
EmptyCache == [x \in {} |-> Idle]

\* ------------------------------------------------- subprocess outcomes (exec)
\* What promisify(exec) gives for "<bin> workspace select <w>": success, or
\* a rejection with the error object's code, stderr and message.  A timeout
\* kills the child: code null, killed, message "Command failed: ...".
ExecError(code, stderr) ==
  [ok |-> FALSE, code |-> code, stderr |-> stderr,
   message |-> <<"Command failed: ">> \o stderr]

ExecRuns ==
  { ExecError("1", <<"Error: exit status 1">>),
    ExecError("1", <<>>),
    ExecError("null", <<>>) }
ExecMissing(bin) == { ExecError("127", <<"/bin/sh: ", bin, ": not found">>) }
ExecFailures(runs, bin) == IF bin \in installed THEN runs ELSE ExecMissing(bin)

\* ------------------------------------------- subprocess outcomes (spawnSync)
SpawnResult(status, stdout, stderr) ==
  [status |-> status, stdout |-> stdout, stderr |-> stderr]
SpawnError(msg) ==
  [status |-> "null", stdout |-> <<>>, stderr |-> <<>>,
   error |-> [message |-> msg]]

\* What spawnSync('terraform', ['plan', ...]) returns.  It never throws: a
\* missing binary or a timeout is reported in .error with status null.
PlanRuns(texts, bin) ==
  { SpawnResult(st, out, <<>>) : st \in {"0", "2"}, out \in texts }
  \cup { SpawnResult("1", <<>>, <<<<"Error: Backend initialization required">>>>),
         SpawnResult("1", <<>>, <<>>),
         SpawnError(<<"spawnSync ", bin, " ETIMEDOUT">>) }
OnePlanResult == { SpawnResult("0", <<NoChangesLine>>, <<>>) }
PlanMissing(bin) == { SpawnError(<<"spawnSync ", bin, " ENOENT">>) }

\* --------------------------------------------------------------- checkDrift
\* The binary the drift check runs (lines 36 and 44).
DriftBinary == "terraform"

\* Mutant: the window taken in seconds instead of milliseconds.
CacheFreshSeconds(cache, w) ==
  w \in DOMAIN cache /\ now - cache[w].lastChecked < 5 * 60

\* Mutant: an entry of exactly five minutes still counted as recent.
CacheFreshInclusive(cache, w) ==
  w \in DOMAIN cache /\ now - cache[w].lastChecked <= RetentionMs

\* cached && Date.now() - cached.lastChecked.getTime() < 5 * 60 * 1000
CacheFresh(cache, w) ==
  w \in DOMAIN cache /\ now - cache[w].lastChecked < RetentionMs

ErrorResult(w, msg) ==
  [workspace |-> w, hasDrift |-> FALSE,
   changes |-> [add |-> 0, change |-> 0, destroy |-> 0],
   details |-> msg, lastChecked |-> now, error |-> msg]

\* The catch block (lines 77-96)
CatchMessage(err) ==
  IF err.code = "ETIMEDOUT"
  THEN <<"Drift check timed out - Terraform plan took too long">>
  ELSE IF err.stderr # <<>> THEN <<"Drift check failed: ">> \o err.stderr
  ELSE IF err.message # <<>> THEN <<"Drift check failed: ">> \o err.message
  ELSE <<"Failed to check drift">>

\* The else branch of the exit-code test (lines 58-76)
Flat(lines) == Join(lines, "\n")

\* Mutant: the message taken from stderr with no default text.
PlanErrorMessageRaw(res) ==
  IF "error" \in DOMAIN res THEN <<"Drift check failed: ">> \o res.error.message
  ELSE Flat(res.stderr)

PlanErrorMessage(res) ==
  IF "error" \in DOMAIN res THEN <<"Drift check failed: ">> \o res.error.message
  ELSE IF res.stderr # <<>> THEN <<"Drift check failed: ">> \o Flat(res.stderr)
  ELSE <<"Failed to check drift">>

\* planResult.stdout || planResult.stderr || ''
PlanOutput(res) == IF res.stdout # <<>> THEN res.stdout ELSE res.stderr

\* Lines 50-76: the DriftResult computed from a finished plan.
PlanOutcome(w, res) ==
  IF res.status = "0" \/ res.status = "2"
  THEN parsePlanOutput(PlanOutput(res), w, now)
  ELSE ErrorResult(w, PlanErrorMessage(res))

\* driftCache.set(workspace, result); return result
StoreAndReturnResult(p, w, r) ==
  /\ driftCache' = CacheSet(driftCache, w, r)
  /\ returned' = <<Ret(task[p].op, w, <<r>>)>>
  /\ task' = [task EXCEPT ![p] = Idle]

\* Lines 27-39: the cache test, then the start of the workspace select.
CheckDriftEnter(p, op, w, cache) ==
  IF CacheFresh(cache, w)
  THEN /\ returned' = <<Ret(op, w, <<cache[w]>>)>>
       /\ lastExec' = <<>>
       /\ driftCache' = cache
       /\ task' = task
  ELSE /\ task' = [task EXCEPT ![p] = [op |-> op, ws |-> w, at |-> "select"]]
       /\ lastExec' = <<Cmd(DriftBinary, <<"workspace", "select", w>>)>>
       /\ driftCache' = cache
       /\ returned' = <<>>

checkDrift(p, w) ==
  /\ task[p] = Idle
  /\ CheckDriftEnter(p, "checkDrift", w, driftCache)
  /\ lastResult' = <<>>
  /\ evicted' = <<>>
  /\ UNCHANGED <<generation, exited, now, cachedCommand, installed, selected, history>>

\* Mutant: refreshDrift without the delete.
refreshDriftKeepsEntry(p, w) ==
  /\ task[p] = Idle
  /\ CheckDriftEnter(p, "refreshDrift", w, driftCache)
  /\ lastResult' = <<>>
  /\ evicted' = <<>>
  /\ UNCHANGED <<generation, exited, now, cachedCommand, installed, selected, history>>

\* Lines 99-103
refreshDrift(p, w) ==
  /\ task[p] = Idle
  /\ CheckDriftEnter(p, "refreshDrift", w, CacheDelete(driftCache, w))
  /\ lastResult' = <<>>
  /\ evicted' = IF w \in DOMAIN driftCache THEN <<driftCache[w]>> ELSE <<>>
  /\ UNCHANGED <<generation, exited, now, cachedCommand, installed, selected, history>>

\* Mutant: the catch block returns its error result without storing it.
SelectFailedNotStored(p, failures) ==
  /\ task[p].at = "select"
  /\ p \notin exited
  /\ \E err \in ExecFailures(failures, DriftBinary) :
       /\ returned' = <<Ret(task[p].op, task[p].ws,
                            <<ErrorResult(task[p].ws, CatchMessage(err))>>)>>
       /\ lastResult' = <<err>>
  /\ evicted' = <<>>
  /\ task' = [task EXCEPT ![p] = Idle]
  /\ lastExec' = <<>>
  /\ UNCHANGED <<generation, exited, now, driftCache, cachedCommand, installed, selected, history>>

\* Mutant: the select's rejection is swallowed and the plan runs anyway.
SelectFailedThenPlan(p, failures) ==
  /\ task[p].at = "select"
  /\ p \notin exited
  /\ \E err \in ExecFailures(failures, DriftBinary) :
       \E res \in IF DriftBinary \in installed THEN OnePlanResult
                  ELSE PlanMissing(DriftBinary) :
         /\ StoreAndReturnResult(p, task[p].ws, PlanOutcome(task[p].ws, res))
         /\ lastResult' = <<err>>
  /\ evicted' = <<>>
  /\ lastExec' = <<Cmd(DriftBinary, <<"plan", "-detailed-exitcode", "-lock=false">>)>>
  /\ UNCHANGED <<generation, exited, now, cachedCommand, installed, selected, history>>

\* The awaited select rejects: control goes to the catch block.
SelectFailed(p, failures) ==
  /\ task[p].at = "select"
  /\ p \notin exited
  /\ \E err \in ExecFailures(failures, DriftBinary) :
       /\ StoreAndReturnResult(p, task[p].ws,
                               ErrorResult(task[p].ws, CatchMessage(err)))
       /\ lastResult' = <<err>>
  /\ evicted' = <<>>
  /\ lastExec' = <<>>
  /\ UNCHANGED <<generation, exited, now, cachedCommand, installed, selected, history>>

\* Mutant: a select that exits with success and selects nothing.
SelectExitsNoEffect(p) ==
  /\ task[p].at = "select"
  /\ p \notin exited
  /\ DriftBinary \in installed
  /\ selected' = selected
  /\ exited' = exited \cup {p}
  /\ returned' = <<>>
  /\ lastExec' = <<>>
  /\ lastResult' = <<>>
  /\ evicted' = <<>>
  /\ UNCHANGED <<generation, now, driftCache, cachedCommand, task, installed, history>>

\* The subprocess of the awaited select exits with success: the tool has
\* made the workspace its current one.  The call resumes in a later step.
SelectExits(p) ==
  /\ task[p].at = "select"
  /\ p \notin exited
  /\ DriftBinary \in installed
  /\ selected' = task[p].ws
  /\ exited' = exited \cup {p}
  /\ returned' = <<>>
  /\ lastExec' = <<>>
  /\ lastResult' = <<>>
  /\ evicted' = <<>>
  /\ UNCHANGED <<generation, now, driftCache, cachedCommand, task, installed, history>>

\* The awaited select has resolved: the plan runs synchronously, in the
\* workspace the tool has selected by then; its result is interpreted and
\* stored.
SelectDonePlan(p, results) ==
  /\ task[p].at = "select"
  /\ p \in exited
  /\ \E res \in IF DriftBinary \in installed THEN results
                 ELSE PlanMissing(DriftBinary) :
       /\ StoreAndReturnResult(p, task[p].ws, PlanOutcome(task[p].ws, res))
       /\ lastResult' = <<res>>
  /\ exited' = exited \ {p}
  /\ evicted' = <<>>
  /\ lastExec' = <<Cmd(DriftBinary, <<"plan", "-detailed-exitcode", "-lock=false">>)>>
  /\ UNCHANGED <<generation, now, cachedCommand, installed, selected, history>>

\* Mutant: getCachedDrift applying the retention window.
getCachedDriftRecent(p, w) ==
  /\ task[p] = Idle
  /\ returned' = <<Ret("getCachedDrift", w,
                       IF CacheFresh(driftCache, w) THEN <<driftCache[w]>> ELSE <<>>)>>
  /\ lastExec' = <<>>
  /\ lastResult' = <<>>
  /\ evicted' = <<>>
  /\ UNCHANGED <<generation, exited, now, driftCache, cachedCommand, task, installed, selected, history>>

\* Line 178
getCachedDrift(p, w) ==
  /\ task[p] = Idle
  /\ returned' = <<Ret("getCachedDrift", w,
                       IF w \in DOMAIN driftCache THEN <<driftCache[w]>> ELSE <<>>)>>
  /\ lastExec' = <<>>
  /\ lastResult' = <<>>
  /\ evicted' = <<>>
  /\ UNCHANGED <<generation, exited, now, driftCache, cachedCommand, task, installed, selected, history>>

\* Line 182
clearCache ==
  /\ driftCache' = EmptyCache
  /\ returned' = <<>>
  /\ lastExec' = <<>>
  /\ lastResult' = <<>>
  /\ evicted' = <<>>
  /\ UNCHANGED <<generation, exited, now, cachedCommand, task, installed, selected, history>>

\* The clock advances.
Tick ==
  /\ now < MaxTicks * TickMs
  /\ now' = now + TickMs
  /\ returned' = <<>>
  /\ lastExec' = <<>>
  /\ lastResult' = <<>>
  /\ evicted' = <<>>
  /\ UNCHANGED <<generation, exited, driftCache, cachedCommand, task, installed, selected, history>>

\* ------------------------------------------------------ getTerraformCommand
\* What "<tool> version" prints when it runs.
VersionOutputs(bin) ==
  IF bin = "tofu"
  THEN { <<"OpenTofu v", "1", ".", "6", "\n", "on linux_amd64">>,
         <<"tofu ", "1", ".", "6">> }
  ELSE { <<"Terraform v", "1", ".", "5", "\n", "on linux_amd64">>,
         <<"terraform ", "1", ".", "5">> }

\* const versionMatch = stdout.match(...); version = versionMatch ? versionMatch[1] : undefined
SelectionOf(command, type, m) ==
  IF m.ok THEN [command |-> command, type |-> type, version |-> m.caps[1]]
  ELSE [command |-> command, type |-> type]

Selection(command, type, stdout, banner) ==
  SelectionOf(command, type, RegexMatch(stdout, <<Lit(banner), Ver>>))

\* Lines 55-58: the selection when neither probe succeeds.
DefaultSelection == [command |-> "terraform", type |-> "terraform"]

\* The arguments of the subprocess a WorkspaceManager operation runs
\* (workspace-manager.ts lines 23 and 53).
WorkspaceArgs(op) ==
  IF op = "getWorkspaces" THEN <<"workspace", "list">> ELSE <<"workspace", "show">>

\* getTerraformCommand() hands sel to its caller: a direct call returns it; a
\* WorkspaceManager operation that awaited it starts "<command> workspace ...".
Resolved(p, sel) ==
  IF task[p].op = "getTerraformCommand"
  THEN /\ returned' = <<Ret("getTerraformCommand", "-", <<sel>>)>>
       /\ task' = [task EXCEPT ![p] = Idle]
       /\ lastExec' = <<>>
  ELSE /\ returned' = <<>>
       /\ task' = [task EXCEPT ![p] = [op |-> task[p].op, ws |-> "-", at |-> "exec",
                                       cmd |-> sel.command]]
       /\ lastExec' = <<Cmd(sel.command, WorkspaceArgs(task[p].op))>>

\* A completed probe sequence stores the selection and returns it.
StoreAndReturn(p, sel) ==
  /\ cachedCommand' = sel
  /\ Resolved(p, sel)
  /\ lastSelection' = sel
  /\ sinceClear' = TRUE

\* Mutant: getTerraformCommand without the cache test.
getTerraformCommandUncached(p) ==
  /\ task[p] = Idle
  /\ task' = [task EXCEPT ![p] =
                [op |-> "getTerraformCommand", ws |-> "-", at |-> "tofu"]]
  /\ lastExec' = <<Cmd("tofu", <<"version">>)>>
  /\ returned' = <<>>
  /\ lastResult' = <<>>
  /\ evicted' = <<>>
  /\ UNCHANGED <<generation, exited, now, driftCache, cachedCommand, installed, selected, history>>

\* Lines 18-25: the cache test, then the start of the tofu probe.
getTerraformCommand(p) ==
  /\ task[p] = Idle
  /\ IF cachedCommand # Null
     THEN /\ returned' = <<Ret("getTerraformCommand", "-", <<cachedCommand>>)>>
          /\ lastExec' = <<>>
          /\ lastSelection' = cachedCommand
          /\ sinceClear' = TRUE
          /\ task' = task
     ELSE /\ task' = [task EXCEPT ![p] =
                        [op |-> "getTerraformCommand", ws |-> "-", at |-> "tofu"]]
          /\ lastExec' = <<Cmd("tofu", <<"version">>)>>
          /\ returned' = <<>>
          /\ UNCHANGED <<lastSelection, sinceClear>>
  /\ lastResult' = <<>>
  /\ evicted' = <<>>
  /\ UNCHANGED <<generation, exited, now, driftCache, cachedCommand, installed, selected, staleSelection>>

\* Mutant: a successful tofu probe recorded as a terraform selection.
TofuProbeDoneAsTerraform(p) ==
  /\ task[p].at = "tofu"
  /\ "tofu" \in installed
  /\ \E out \in VersionOutputs("tofu") :
       /\ StoreAndReturn(p, Selection("terraform", "terraform", out, "OpenTofu v"))
       /\ lastResult' = <<[stdout |-> out]>>
  /\ evicted' = <<>>
  /\ UNCHANGED <<generation, exited, now, driftCache, installed, selected, staleSelection>>

\* Lines 25-36: "tofu version" succeeded.
TofuProbeDone(p) ==
  /\ task[p].at = "tofu"
  /\ "tofu" \in installed
  /\ \E out \in VersionOutputs("tofu") :
       /\ StoreAndReturn(p, Selection("tofu", "opentofu", out, "OpenTofu v"))
       /\ lastResult' = <<[stdout |-> out]>>
  /\ evicted' = <<>>
  /\ UNCHANGED <<generation, exited, now, driftCache, installed, selected, staleSelection>>

\* Lines 37-40: "tofu version" failed (missing, non-zero exit or the 5 s
\* timeout); the terraform probe starts.
TofuProbeFailed(p) ==
  /\ task[p].at = "tofu"
  /\ task' = [task EXCEPT ![p].at = "terraform"]
  /\ lastExec' = <<Cmd("terraform", <<"version">>)>>
  /\ lastResult' = <<>>
  /\ evicted' = <<>>
  /\ returned' = <<>>
  /\ UNCHANGED <<generation, exited, now, driftCache, cachedCommand, installed, selected, history>>

\* Mutant: a successful terraform probe whose output is not read.
TerraformProbeDoneNoVersion(p) ==
  /\ task[p].at = "terraform"
  /\ "terraform" \in installed
  /\ \E out \in VersionOutputs("terraform") :
       /\ StoreAndReturn(p, DefaultSelection)
       /\ lastResult' = <<[stdout |-> out]>>
  /\ evicted' = <<>>
  /\ UNCHANGED <<generation, exited, now, driftCache, installed, selected, staleSelection>>

\* Lines 40-51: "terraform version" succeeded.
TerraformProbeDone(p) ==
  /\ task[p].at = "terraform"
  /\ "terraform" \in installed
  /\ \E out \in VersionOutputs("terraform") :
       /\ StoreAndReturn(p, Selection("terraform", "terraform", out, "Terraform v"))
       /\ lastResult' = <<[stdout |-> out]>>
  /\ evicted' = <<>>
  /\ UNCHANGED <<generation, exited, now, driftCache, installed, selected, staleSelection>>

\* Mutant: the default selection carrying a version.
TerraformProbeFailedVersioned(p) ==
  /\ task[p].at = "terraform"
  /\ StoreAndReturn(p, [command |-> "terraform", type |-> "terraform",
                        version |-> <<"0">>])
  /\ lastResult' = <<>>
  /\ evicted' = <<>>
  /\ UNCHANGED <<generation, exited, now, driftCache, installed, selected, staleSelection>>

\* Mutant: the default selection returned without being stored.
TerraformProbeFailedNotCached(p) ==
  /\ task[p].at = "terraform"
  /\ cachedCommand' = cachedCommand
  /\ Resolved(p, DefaultSelection)
  /\ lastSelection' = DefaultSelection
  /\ sinceClear' = TRUE
  /\ lastResult' = <<>>
  /\ evicted' = <<>>
  /\ UNCHANGED <<generation, exited, now, driftCache, installed, selected, staleSelection>>

\* Lines 52-60: "terraform version" failed too.
TerraformProbeFailed(p) ==
  /\ task[p].at = "terraform"
  /\ StoreAndReturn(p, DefaultSelection)
  /\ lastResult' = <<>>
  /\ evicted' = <<>>
  /\ UNCHANGED <<generation, exited, now, driftCache, installed, selected, staleSelection>>

\* Mutant: a clear that leaves the cached command in place.
clearTerraformCommandCacheNoop ==
  /\ cachedCommand' = cachedCommand
  /\ staleSelection' = cachedCommand
  /\ sinceClear' = FALSE
  /\ returned' = <<>>
  /\ lastExec' = <<>>
  /\ lastResult' = <<>>
  /\ evicted' = <<>>
  /\ UNCHANGED <<generation, exited, now, driftCache, task, installed, selected, lastSelection>>

\* Lines 67-69
clearTerraformCommandCache ==
  /\ cachedCommand' = Null
  /\ staleSelection' = cachedCommand
  /\ sinceClear' = FALSE
  /\ returned' = <<>>
  /\ lastExec' = <<>>
  /\ lastResult' = <<>>
  /\ evicted' = <<>>
  /\ UNCHANGED <<generation, exited, now, driftCache, task, installed, selected, lastSelection>>

\* Environment: a tool is installed or removed.
ChangeTools ==
  /\ \E t \in Tools :
       installed' = IF t \in installed THEN installed \ {t} ELSE installed \cup {t}
  /\ returned' = <<>>
  /\ lastExec' = <<>>
  /\ lastResult' = <<>>
  /\ evicted' = <<>>
  /\ UNCHANGED <<generation, exited, now, driftCache, cachedCommand, task, selected, history>>

\* --------------------------------------------------------- WorkspaceManager
\* Text is a sequence of tokens; " " and "\n" are its whitespace.
IsSpace(t) == t \in {" ", "\n"}

RECURSIVE TrimStart(_)
TrimStart(text) ==
  IF text # <<>> /\ IsSpace(Head(text)) THEN TrimStart(Tail(text)) ELSE text

RECURSIVE TrimEnd(_)
TrimEnd(text) ==
  IF text # <<>> /\ IsSpace(text[Len(text)])
  THEN TrimEnd(SubSeq(text, 1, Len(text) - 1))
  ELSE text

\* String.prototype.trim
Trim(text) == TrimEnd(TrimStart(text))

\* text.split('\n'): the lines of text; the text '' has the one line ''.
RECURSIVE SplitLines(_, _)
SplitLines(text, line) ==
  IF text = <<>> THEN <<line>>
  ELSE IF Head(text) = "\n" THEN <<line>> \o SplitLines(Tail(text), <<>>)
  ELSE SplitLines(Tail(text), Append(line, Head(text)))

\* line.replace('*', ''): the first '*' removed.
RECURSIVE RemoveFirstStar(_)
RemoveFirstStar(line) ==
  IF line = <<>> THEN <<>>
  ELSE IF Head(line) = "*" THEN Tail(line)
  ELSE <<Head(line)>> \o RemoveFirstStar(Tail(line))

\* Lines 35-39
WorkspaceOf(name, isCurrent) ==
  [name |-> name, isCurrent |-> isCurrent,
   state |-> IF isCurrent THEN "active" ELSE "inactive"]

\* Lines 32-33
WorkspaceOfLine(line) ==
  WorkspaceOf(Trim(RemoveFirstStar(line)), line # <<>> /\ Head(line) = "*")

\* Lines 30-41, over the lines that are not blank.
ListedWorkspaces(lines) == [i \in 1..Len(lines) |-> WorkspaceOfLine(lines[i])]

NotBlank(line) == Trim(line) # <<>>

\* Lines 27-43
ParseWorkspaceList(stdout) ==
  ListedWorkspaces(SelectSeq(SplitLines(Trim(stdout), <<>>), NotBlank))

\* What "<tool> workspace list" prints: the tool's own format ("* " before
\* the selected workspace, two spaces before the others), nothing, and text
\* in which two lines start with '*'.
WorkspaceListTexts ==
  { <<" ", "default", "\n", "*", " ", "dev", "\n", "\n">>,
    <<"*", " ", "default", "\n", " ", "dev", "\n", "\n">>,
    <<"*", " ", "default", "\n", "\n">>,
    <<>>,
    <<"*", " ", "default", "\n", "*", " ", "dev", "\n">> }

\* What "<tool> workspace show" prints.
WorkspaceShowTexts == { <<"default", "\n">>, <<"dev", "\n">> }

\* Lines 20-23 and 50-53: the operation awaits getTerraformCommand(), which
\* answers from cachedCommand or starts the probe sequence.
WorkspaceCall(p, op) ==
  /\ task[p] = Idle
  /\ IF cachedCommand # Null
     THEN /\ task' = [task EXCEPT ![p] = [op |-> op, ws |-> "-", at |-> "exec",
                                          cmd |-> cachedCommand.command]]
          /\ lastExec' = <<Cmd(cachedCommand.command, WorkspaceArgs(op))>>
          /\ lastSelection' = cachedCommand
          /\ sinceClear' = TRUE
     ELSE /\ task' = [task EXCEPT ![p] = [op |-> op, ws |-> "-", at |-> "tofu"]]
          /\ lastExec' = <<Cmd("tofu", <<"version">>)>>
          /\ UNCHANGED <<lastSelection, sinceClear>>
  /\ returned' = <<>>
  /\ lastResult' = <<>>
  /\ evicted' = <<>>
  /\ UNCHANGED <<now, exited, driftCache, cachedCommand, installed, selected, staleSelection>>

getWorkspaces(p) == WorkspaceCall(p, "getWorkspaces") /\ UNCHANGED generation

getCurrentWorkspace(p) ==
  WorkspaceCall(p, "getCurrentWorkspace") /\ UNCHANGED generation

\* Lines 27-43 and 56: the value made from the subprocess's stdout.
WorkspaceValue(op, stdout) ==
  IF op = "getWorkspaces" THEN <<ParseWorkspaceList(stdout)>> ELSE <<Trim(stdout)>>

\* Lines 44-47 and 57-60: [] from getWorkspaces, null from getCurrentWorkspace.
WorkspaceFailureValue(op) == IF op = "getWorkspaces" THEN <<<<>>>> ELSE <<>>

\* The workspace subprocess ended with exit code 0.
WorkspaceExecDone(p) ==
  /\ task[p].at = "exec"
  /\ task[p].cmd \in installed
  /\ \E out \in IF task[p].op = "getWorkspaces" THEN WorkspaceListTexts
                 ELSE WorkspaceShowTexts :
       /\ returned' = <<Ret(task[p].op, "-", WorkspaceValue(task[p].op, out))>>
       /\ lastResult' = <<[stdout |-> out]>>
  /\ task' = [task EXCEPT ![p] = Idle]
  /\ lastExec' = <<>>
  /\ evicted' = <<>>
  /\ UNCHANGED <<generation, exited, now, driftCache, cachedCommand, installed, selected, history>>

\* Mutant: the rejection of the subprocess is not caught.
WorkspaceExecFailedUncaught(p) ==
  /\ task[p].at = "exec"
  /\ \E err \in ExecFailures(ExecRuns, task[p].cmd) : lastResult' = <<err>>
  /\ returned' = <<>>
  /\ task' = [task EXCEPT ![p] = Idle]
  /\ lastExec' = <<>>
  /\ evicted' = <<>>
  /\ UNCHANGED <<generation, exited, now, driftCache, cachedCommand, installed, selected, history>>

\* The workspace subprocess failed: the catch block.
WorkspaceExecFailed(p) ==
  /\ task[p].at = "exec"
  /\ \E err \in ExecFailures(ExecRuns, task[p].cmd) : lastResult' = <<err>>
  /\ returned' = <<Ret(task[p].op, "-", WorkspaceFailureValue(task[p].op))>>
  /\ task' = [task EXCEPT ![p] = Idle]
  /\ lastExec' = <<>>
  /\ evicted' = <<>>
  /\ UNCHANGED <<generation, exited, now, driftCache, cachedCommand, installed, selected, history>>

\* ------------------------------------------------------- generateDashboard
\* A directory entry is its name's stem and suffix: "main" ".tf".
Entries ==
  { <<"main", ".tf">>, <<"prod", ".tfvars">>, <<"terraform", ".tfstate">>,
    <<"", ".terraform">>, <<"README", ".md">> }

Missing == [kind |-> "missing", entries |-> {}]

\* What the path can name: nothing, a file, or a directory and its entries.
Targets ==
  {Missing, [kind |-> "file", entries |-> {}]}
  \cup { [kind |-> "dir", entries |-> e] : e \in SUBSET Entries }

\* dashboard-generator.ts lines 571-577: the filter over readdirSync(path).
IsTerraformFile(file) ==
  \/ file[2] \in {".tf", ".tfvars", ".hcl"}
  \/ file = <<"terraform", ".tfstate">>
  \/ file = <<"", ".terraform">>

\* Mutant: a directory is accepted whatever it holds.
ValidationErrorNoFileTest(t) ==
  IF t.kind = "missing" THEN <<"Path does not exist">>
  ELSE IF t.kind # "dir" THEN <<"Path is not a directory">>
  ELSE <<>>

\* validateTerraformPath: the message of the Error thrown, <<>> when the
\* path is returned.
ValidationError(t) ==
  IF t.kind = "missing" THEN <<"Path does not exist">>
  ELSE IF t.kind # "dir" THEN <<"Path is not a directory">>
  ELSE IF {f \in t.entries : IsTerraformFile(f)} = {}
       THEN <<"No Terraform/OpenTofu files found">>
  ELSE <<>>

\* terraform-analyzer.ts lines 139-153: the files the analyzer reads (the
\* entries of the directory itself; those of its subdirectories are left out).
AnalyzerFiles(t) == {f \in t.entries : f[2] \in {".tf", ".tfvars", ".hcl"}}

NotStarted == [phase |-> "idle", workspaces |-> <<>>, analysed |-> FALSE]

\* Environment: the path names something else before the command runs.
ChangeTarget ==
  /\ run.phase = "idle"
  /\ \E t \in Targets \ {target} : target' = t
  /\ returned' = <<>>
  /\ lastExec' = <<>>
  /\ lastResult' = <<>>
  /\ evicted' = <<>>
  /\ UNCHANGED <<analysis, run, dashboard, now, exited, driftCache, cachedCommand, task, installed,
                 selected, history>>

\* generate.ts lines 23-48: the validation; when it throws, the catch block
\* (lines 74-78) ends the process with exit code 1; otherwise
\* generateStaticDashboard starts the analyzers and getWorkspaces().
generateDashboard(p) ==
  /\ run.phase = "idle"
  /\ task[p] = Idle
  /\ IF ValidationError(target) # <<>>
     THEN /\ run' = [run EXCEPT !.phase = "failed"]
          /\ returned' = <<Ret("generateDashboard", "-", <<ValidationError(target)>>)>>
          /\ lastExec' = <<>>
          /\ lastResult' = <<>>
          /\ evicted' = <<>>
          /\ UNCHANGED <<now, exited, driftCache, cachedCommand, task, installed, selected,
                         history>>
     ELSE /\ run' = [run EXCEPT !.phase = "analysing"]
          /\ WorkspaceCall(p, "getWorkspaces")
  /\ UNCHANGED <<analysis, target, dashboard>>

\* terraform-analyzer.ts lines 42-45, 77-80, 108-111: the analyzers pipe each
\* file through the converter.  (A list getWorkspaces() has just resolved
\* with is kept first: promise reactions run before the next I/O callback.)
AnalyzeFiles(p) ==
  /\ run.phase \in {"analysing", "listed"}
  /\ ~run.analysed
  /\ ~(run.phase = "analysing" /\ returned # <<>>)
  /\ run' = [run EXCEPT !.analysed = TRUE]
  /\ lastExec' = IF AnalyzerFiles(target) = {} THEN <<>> ELSE <<Cmd("hcl2json", <<>>)>>
  /\ returned' = <<>>
  /\ lastResult' = <<>>
  /\ evicted' = <<>>
  /\ UNCHANGED <<analysis, target, dashboard, now, exited, driftCache, cachedCommand, task, installed,
                 selected, history>>

\* dashboard-generator.ts lines 10-15: Promise.all keeps the list
\* getWorkspaces() resolved with.
KeepWorkspaces(p) ==
  /\ run.phase = "analysing"
  /\ task[p] = Idle
  /\ returned # <<>> /\ returned[1].op = "getWorkspaces"
  /\ run' = [run EXCEPT !.phase = "listed", !.workspaces = returned[1].value[1]]
  /\ returned' = <<>>
  /\ lastExec' = <<>>
  /\ lastResult' = <<>>
  /\ evicted' = <<>>
  /\ UNCHANGED <<analysis, target, dashboard, now, exited, driftCache, cachedCommand, task, installed,
                 selected, history>>

\* dashboard-generator.ts lines 17-32: once the analyzers and getWorkspaces()
\* are done, checkDrift is called for every workspace; with the empty cache
\* of a new process each call starts its workspace select.
StartDriftChecks(p) ==
  /\ run.phase = "listed"
  /\ run.analysed
  /\ run' = [run EXCEPT !.phase = "drift"]
  /\ lastExec' = [i \in 1..Len(run.workspaces) |->
                    Cmd(DriftBinary, <<"workspace", "select", run.workspaces[i].name>>)]
  /\ returned' = <<>>
  /\ lastResult' = <<>>
  /\ evicted' = <<>>
  /\ UNCHANGED <<analysis, target, dashboard, now, exited, driftCache, cachedCommand, task, installed,
                 selected, history>>

\* generate.ts lines 47-61: the drift checks are done (their steps are those
\* of checkDrift), the HTML is made and written.
WriteDashboard(p) ==
  /\ run.phase = "drift"
  /\ run' = [run EXCEPT !.phase = "done"]
  /\ dashboard' = <<[workspaces |-> run.workspaces]>>
  /\ returned' = <<Ret("generateDashboard", "-", <<>>)>>
  /\ lastExec' = <<>>
  /\ lastResult' = <<>>
  /\ evicted' = <<>>
  /\ UNCHANGED <<analysis, target, now, exited, driftCache, cachedCommand, task, installed, selected,
                 history>>

\* -------------------------------------------------------- TerraformAnalyzer
\* The values JSON.parse and basicHclParse build.  An object is its entries
\* <<key, value>> in insertion order (a key is a sequence of tokens), an
\* array its items, a string its tokens.
Obj(entries) == [kind |-> "object", of |-> entries]
Arr(items) == [kind |-> "array", of |-> items]
Str(tokens) == [kind |-> "string", of |-> tokens]
JsNull == [kind |-> "null", of |-> <<>>]
Undefined == [kind |-> "undefined", of |-> <<>>]

\* value.key, for a value that is neither null nor undefined.
Get(v, key) ==
  IF v.kind = "object" /\ \E i \in 1..Len(v.of) : v.of[i][1] = key
  THEN v.of[CHOOSE i \in 1..Len(v.of) : v.of[i][1] = key][2]
  ELSE Undefined

\* Reading a property of null or undefined throws a TypeError, and so does
\* Object.entries of them.
Nullish(v) == v.kind \in {"null", "undefined"}

\* The truth value of v in a condition.
Truthy(v) == ~Nullish(v) /\ v # Str(<<>>)

\* Array.isArray(v)
IsArray(v) == v.kind = "array"

\* Object.entries(v), for v not nullish.  The entries of a string are its
\* characters, strings again, on which the walkers push nothing: left out.
EntriesOf(v) ==
  IF v.kind = "object" THEN v.of
  ELSE IF v.kind = "array" THEN [i \in 1..Len(v.of) |-> <<<<"index">>, v.of[i]>>]
  ELSE <<>>

\* obj[key] = val on the entries of an object.
PutKey(entries, key, val) ==
  IF \E i \in 1..Len(entries) : entries[i][1] = key
  THEN [i \in 1..Len(entries) |->
          IF entries[i][1] = key THEN <<key, val>> ELSE entries[i]]
  ELSE Append(entries, <<key, val>>)

\* ---- basicHclParse (lines 219-244), on the tokens of the file's text
\* \s* : the first position at or after i that holds no whitespace.
RECURSIVE SkipSpace(_, _)
SkipSpace(text, i) ==
  IF i <= Len(text) /\ IsSpace(text[i]) THEN SkipSpace(text, i + 1) ELSE i

\* [^x]+x : the position of the first x after i, 0 when there is none or
\* when nothing stands between i and it.
RECURSIVE Closing(_, _, _, _)
Closing(text, i, x, from) ==
  IF i > Len(text) THEN 0
  ELSE IF text[i] = x THEN (IF i > from THEN i ELSE 0)
  ELSE Closing(text, i + 1, x, from)

At(text, i) == IF i >= 1 /\ i <= Len(text) THEN text[i] ELSE "end of text"

\* \w+ : a token made of letters, digits and '_'.
IsWord(t) ==
  t \notin {" ", "\n", "{", "}", "=", "\"", "end of text", "./vpc", "hashicorp/aws",
            "${", ".", "null", "[", "]", ","}

\* The end of a "{" [^}]+ "}" block whose "{" is expected at i, 0 if none.
BlockEnd(text, i) ==
  IF At(text, i) = "{" THEN Closing(text, i + 1, "}", i + 1) ELSE 0

\* /required_providers\s*{([^}]+)}/ tried at i: the end of the match, or 0.
ProvidersBlockEnd(text, i) ==
  IF At(text, i) = "required_providers"
  THEN BlockEnd(text, SkipSpace(text, i + 1)) ELSE 0

\* content.match(...): the capture of the leftmost match, as <<capture>>,
\* or <<>> without a match.
RECURSIVE ProvidersMatch(_, _)
ProvidersMatch(text, i) ==
  IF i > Len(text) THEN <<>>
  ELSE IF ProvidersBlockEnd(text, i) # 0
  THEN <<SubSeq(text, SkipSpace(text, i + 1) + 1, ProvidersBlockEnd(text, i) - 1)>>
  ELSE ProvidersMatch(text, i + 1)

\* /(\w+)\s*=\s*{([^}]+)}/ tried at i: the end of the match, or 0.
ProviderEntryEnd(text, i) ==
  IF IsWord(At(text, i)) /\ At(text, SkipSpace(text, i + 1)) = "="
  THEN BlockEnd(text, SkipSpace(text, SkipSpace(text, i + 1) + 1))
  ELSE 0

\* The while loop of lines 230-232: result.terraform.required_providers
\* after the matches from position i on.
RECURSIVE ProviderEntries(_, _, _)
ProviderEntries(text, i, entries) ==
  IF i > Len(text) THEN entries
  ELSE IF ProviderEntryEnd(text, i) # 0
  THEN ProviderEntries(text, ProviderEntryEnd(text, i) + 1,
                       PutKey(entries, <<text[i]>>, Obj(<<>>)))
  ELSE ProviderEntries(text, i + 1, entries)

\* The position after \s+ from i, 0 when no whitespace stands at i.
SpaceEnd(text, i) == IF IsSpace(At(text, i)) THEN SkipSpace(text, i) ELSE 0

\* The closing quote of "([^"]+)" whose opening quote is expected at i, or 0.
QuoteEnd(text, i) ==
  IF i # 0 /\ At(text, i) = "\"" THEN Closing(text, i + 1, "\"", i + 1) ELSE 0

\* /module\s+"([^"]+)"\s*{([^}]+)}/ tried at i: the end of the match, or 0.
ModuleBlockEnd(text, i) ==
  IF At(text, i) = "module" /\ QuoteEnd(text, SpaceEnd(text, i + 1)) # 0
  THEN BlockEnd(text, SkipSpace(text, QuoteEnd(text, SpaceEnd(text, i + 1)) + 1))
  ELSE 0

\* The while loop of lines 239-241: result.module after the matches from
\* position i on; the name is the text between the quotes.
RECURSIVE ModuleEntries(_, _, _)
ModuleEntries(text, i, entries) ==
  IF i > Len(text) THEN entries
  ELSE IF ModuleBlockEnd(text, i) # 0
  THEN ModuleEntries(text, ModuleBlockEnd(text, i) + 1,
         PutKey(entries,
                SubSeq(text, SpaceEnd(text, i + 1) + 1,
                       QuoteEnd(text, SpaceEnd(text, i + 1)) - 1),
                Obj(<<>>)))
  ELSE ModuleEntries(text, i + 1, entries)

\* Lines 224-233: result.terraform, when required_providers matched.
TerraformEntry(match) ==
  IF match = <<>> THEN <<>>
  ELSE << <<<<"terraform">>,
            Obj(<< <<<<"required_providers">>,
                     Obj(ProviderEntries(match[1], 1, <<>>))>> >>)>> >>

basicHclParse(content) ==
  Obj(TerraformEntry(ProvidersMatch(content, 1))
        \o << <<<<"module">>, Obj(ModuleEntries(content, 1, <<>>))>> >>)

\* ---- the walks of getProviders, getModules and getResources over a tree
\* A loop over items that stops where its body throws.
FoldSeq(F(_, _), acc, items) ==
  LET upto[i \in 0..Len(items)] == IF i = 0 THEN acc ELSE F(upto[i - 1], items[i])
  IN upto[Len(items)]

\* What a walk has pushed so far, and whether it threw a TypeError.
Nothing == [out |-> <<>>, threw |-> FALSE]
Threw(acc) == [acc EXCEPT !.threw = TRUE]
Push(acc, entity) == [acc EXCEPT !.out = Append(@, entity)]

\* Each item of a loop with the names of the loops around it.
Named(name, items) == [i \in 1..Len(items) |-> <<name, items[i]>>]

\* Lines 52-60
PushProvider(acc, entry) ==
  IF acc.threw THEN acc
  ELSE IF Nullish(entry[2]) THEN Threw(acc)
  ELSE Push(acc, [name |-> entry[1],
                  version |-> Get(entry[2], <<"version">>),
                  source |-> Get(entry[2], <<"source">>),
                  configuration |-> entry[2]])

\* Lines 51-61
OverProviderBlock(acc, providerBlock) ==
  IF acc.threw THEN acc
  ELSE IF Nullish(providerBlock) THEN Threw(acc)
  ELSE FoldSeq(PushProvider, acc, EntriesOf(providerBlock))

\* Line 50
OverRequiredProviders(acc, required) ==
  IF Truthy(required) /\ IsArray(required)
  THEN FoldSeq(OverProviderBlock, acc, required.of)
  ELSE acc

\* Lines 49-63
OverTerraformBlock(acc, terraformBlock) ==
  IF acc.threw THEN acc
  ELSE IF Nullish(terraformBlock) THEN Threw(acc)
  ELSE OverRequiredProviders(acc, Get(terraformBlock, <<"required_providers">>))

\* Line 48
OverTerraform(acc, terraform) ==
  IF Truthy(terraform) /\ IsArray(terraform)
  THEN FoldSeq(OverTerraformBlock, acc, terraform.of)
  ELSE acc

\* Lines 47-64
ProvidersOf(parsed) ==
  IF Nullish(parsed) THEN Threw(Nothing)
  ELSE OverTerraform(Nothing, Get(parsed, <<"terraform">>))

\* Lines 85-92
PushModule(acc, item) ==
  IF acc.threw THEN acc
  ELSE IF Nullish(item[2]) THEN Threw(acc)
  ELSE Push(acc, [name |-> item[1],
                  source |-> Get(item[2], <<"source">>),
                  version |-> Get(item[2], <<"version">>),
                  configuration |-> item[2]])

\* Lines 83-93
OverModuleEntry(acc, entry) ==
  IF acc.threw THEN acc
  ELSE IF IsArray(entry[2]) THEN FoldSeq(PushModule, acc, Named(entry[1], entry[2].of))
  ELSE acc

\* Line 82
OverModules(acc, module) ==
  IF Truthy(module) THEN FoldSeq(OverModuleEntry, acc, EntriesOf(module)) ELSE acc

\* Lines 82-95
ModulesOf(parsed) ==
  IF Nullish(parsed) THEN Threw(Nothing)
  ELSE OverModules(Nothing, Get(parsed, <<"module">>))

\* ---- extractDependencies (lines 183-206)
\* Mutant: every reference is kept.
AnyRef(ref) == <<ref>>

\* Lines 191-194: the reference is kept when it includes a '.'.
DottedRef(ref) == IF Includes(ref, ".") THEN <<ref>> ELSE <<>>

\* value.match(/\$\{([^}]+)\}/g) and the loop of lines 190-195, from token i.
RECURSIVE RefsIn(_, _)
RefsIn(str, i) ==
  IF i > Len(str) THEN <<>>
  ELSE IF str[i] = "${" /\ Closing(str, i + 1, "}", i + 1) # 0
  THEN DottedRef(SubSeq(str, i + 1, Closing(str, i + 1, "}", i + 1) - 1))
         \o RefsIn(str, Closing(str, i + 1, "}", i + 1) + 1)
  ELSE RefsIn(str, i + 1)

\* Object.values(value)
ValuesOf(v) ==
  IF v.kind = "object" THEN [i \in 1..Len(v.of) |-> v.of[i][2]] ELSE v.of

\* extractFromValue, and its loop over Object.values(value) from item i.
RECURSIVE extractFromValue(_)
RECURSIVE extractFromValues(_, _)
extractFromValue(value) ==
  IF value.kind = "string" THEN RefsIn(value.of, 1)
  ELSE IF value.kind \in {"object", "array"} THEN extractFromValues(ValuesOf(value), 1)
  ELSE <<>>

extractFromValues(values, i) ==
  IF i > Len(values) THEN <<>>
  ELSE extractFromValue(values[i]) \o extractFromValues(values, i + 1)

\* The references before the last that differ from it.
Others(refs, last) == SelectSeq(refs, LAMBDA r : r # last)

\* [...new Set(dependencies)]: the first occurrence of each is kept.
RECURSIVE Distinct(_)
Distinct(refs) ==
  IF refs = <<>> THEN <<>>
  ELSE <<Head(refs)>> \o Distinct(Others(Tail(refs), Head(refs)))

extractDependencies(config) == Distinct(extractFromValue(config))

\* Lines 162-172: the prefixes of the provider map.
ProviderPrefixes ==
  {"aws", "azurerm", "google", "kubernetes", "helm", "docker", "null", "local", "random"}

\* Lines 155-181; a resource type is its tokens, the prefix first.
extractProvider(resourceType, config) ==
  IF Truthy(Get(config, <<"provider">>)) THEN Get(config, <<"provider">>)
  ELSE IF resourceType[1] \in ProviderPrefixes THEN Str(<<resourceType[1]>>)
  ELSE Str(<<"unknown">>)

\* Lines 118-126; item is <<<<type, name>>, resourceConfig>>.
PushResource(acc, item) ==
  IF acc.threw THEN acc
  ELSE IF Nullish(item[2]) THEN Threw(acc)
  ELSE Push(acc, [name |-> item[1][2],
                  type |-> item[1][1],
                  provider |-> extractProvider(item[1][1], item[2]),
                  configuration |-> item[2],
                  dependencies |-> extractDependencies(item[2])])

\* Lines 116-128; entry is <<type, <<name, configs>>>>.
OverResourceName(acc, entry) ==
  IF acc.threw THEN acc
  ELSE IF IsArray(entry[2][2])
  THEN FoldSeq(PushResource, acc, Named(<<entry[1], entry[2][1]>>, entry[2][2].of))
  ELSE acc

\* Lines 115-129
OverResourceType(acc, entry) ==
  IF acc.threw THEN acc
  ELSE IF Nullish(entry[2]) THEN Threw(acc)
  ELSE FoldSeq(OverResourceName, acc, Named(entry[1], EntriesOf(entry[2])))

\* Line 114
OverResources(acc, resource) ==
  IF Truthy(resource) THEN FoldSeq(OverResourceType, acc, EntriesOf(resource)) ELSE acc

\* Lines 113-130
ResourcesOf(parsed) ==
  IF Nullish(parsed) THEN Threw(Nothing)
  ELSE OverResources(Nothing, Get(parsed, <<"resource">>))

\* ---- the files of a configuration
\* A file: whether readFileSync reads it, the tokens of its text, the tree
\* the converter prints for it, and the names it declares.
File(content, json, providers, modules, resources) ==
  [readable |-> TRUE, content |-> content, json |-> json,
   providers |-> providers, modules |-> modules, resources |-> resources]

\* terraform { required_providers { aws = { source = "hashicorp/aws" } } }
ProvidersFile ==
  File(<<"terraform", " ", "{", "\n", "required_providers", " ", "{", "\n",
         "aws", " ", "=", " ", "{", " ", "source", " ", "=", " ",
         "\"", "hashicorp/aws", "\"", " ", "}", "\n", "}", "\n", "}">>,
       Obj(<< <<<<"terraform">>,
                Arr(<<Obj(<< <<<<"required_providers">>,
                               Arr(<<Obj(<< <<<<"aws">>,
                                              Obj(<< <<<<"source">>,
                                                       Str(<<"hashicorp/aws">>)>> >>)>>
                                          >>)>>)>> >>)>>)>> >>),
       <<<<"aws">>>>, <<>>, <<>>)

\* module "vpc" { source = "./vpc" }
ModuleFile ==
  File(<<"module", " ", "\"", "vpc", "\"", " ", "{", "\n",
         "source", " ", "=", " ", "\"", "./vpc", "\"", "\n", "}">>,
       Obj(<< <<<<"module">>,
                Obj(<< <<<<"vpc">>,
                         Arr(<<Obj(<< <<<<"source">>, Str(<<"./vpc">>)>> >>)>>)>> >>)>> >>),
       <<>>, <<<<"vpc">>>>, <<>>)

\* The expressions a string of a resource interpolates: none, two references
\* and a call without a '.'.
Exprs ==
  { <<>>, <<"aws_instance", ".", "web", ".", "id">>, <<"var", ".", "region">>,
    <<"upper()">> }

Interp(e) == IF e = <<>> THEN <<"plain">> ELSE <<"${">> \o e \o <<"}">>

\* A resource configuration that interpolates x in an attribute, y and x in
\* a string of a map, and z and y in strings of nested lists.
Config(x, y, z) ==
  Obj(<< <<<<"ami">>, Str(Interp(x))>>,
         <<<<"tags">>,
           Obj(<< <<<<"Name">>, Str(<<"web-">> \o Interp(y) \o <<"-">> \o Interp(x))>> >>)>>,
         <<<<"security_groups">>, Arr(<<Str(Interp(z)), Arr(<<Str(Interp(y))>>)>>)>>,
         <<<<"count">>, JsNull>> >>)

\* resource "aws_instance" "web" { ... }
ResourceFile(x, y, z) ==
  File(<<"resource", " ", "\"", "aws", "_instance", "\"", " ", "\"", "web", "\"",
         " ", "{", "\n", "}">>,
       Obj(<< <<<<"resource">>,
                Obj(<< <<<<"aws", "_instance">>,
                         Obj(<< <<<<"web">>, Arr(<<Config(x, y, z)>>)>> >>)>> >>)>> >>),
       <<>>, <<>>, <<<<"web">>>>)

\* A variables file whose attributes carry the names the walks look for:
\* terraform = [null], module = { x = [{ source = "m" }, null] },
\* resource = { a = null }.  Every walk throws on it.
VarsFile ==
  File(<<"terraform", " ", "=", " ", "[", "null", "]", "\n">>,
       Obj(<< <<<<"terraform">>, Arr(<<JsNull>>)>>,
              <<<<"module">>,
                Obj(<< <<<<"x">>,
                         Arr(<<Obj(<< <<<<"source">>, Str(<<"m">>)>> >>), JsNull>>)>> >>)>>,
              <<<<"resource">>, Obj(<< <<<<"a">>, JsNull>> >>)>> >>),
       <<>>, <<>>, <<>>)

\* A file readFileSync cannot read.
UnreadableFile == [VarsFile EXCEPT !.readable = FALSE]

CoreFiles ==
  { ProvidersFile, ModuleFile,
    ResourceFile(<<"var", ".", "region">>, <<>>, <<"upper()">>),
    VarsFile, UnreadableFile }

\* The lists getTerraformFiles may return.
FileLists ==
  UNION { [1..n -> CoreFiles] : n \in 0..MaxFiles }
  \cup { <<ResourceFile(x, y, z)>> : x \in Exprs, y \in Exprs, z \in Exprs }

NoAnalysis == [op |-> "idle", files |-> <<>>, i |-> 0, out |-> <<>>, log |-> <<>>]

\* Lines 39-42, 74-77, 105-108: the operation lists the files and starts its
\* loop over them.  The analyzer keeps nothing from one call to the next, so
\* one call is followed from the first state.
StartAnalysis(op) ==
  /\ analysis = NoAnalysis
  /\ \E files \in FileLists :
       analysis' = [op |-> op, files |-> files, i |-> 1, out |-> <<>>, log |-> <<>>]
  /\ returned' = <<>>
  /\ lastExec' = <<>>
  /\ lastResult' = <<>>
  /\ evicted' = <<>>
  /\ UNCHANGED <<target, run, dashboard, now, exited, driftCache, cachedCommand, task,
                 installed, selected, history>>

getProviders == StartAnalysis("getProviders")

getModules == StartAnalysis("getModules")

getResources == StartAnalysis("getResources")

\* Lines 208-217: the tree parseHcl resolves with.
parseHcl(file, converted) ==
  IF converted THEN file.json ELSE basicHclParse(file.content)

\* The walk of the operation over the tree.
WalkOf(op, parsed) ==
  IF op = "getProviders" THEN ProvidersOf(parsed)
  ELSE IF op = "getModules" THEN ModulesOf(parsed)
  ELSE ResourcesOf(parsed)

\* The body of the try block for one file: what it pushed and whether it
\* threw.
FileStep(op, file, converted) ==
  IF file.readable THEN WalkOf(op, parseHcl(file, converted)) ELSE Threw(Nothing)

\* The loop state after a file whose try block did step.
AfterFile(a, converted, step) ==
  [a EXCEPT !.i = @ + 1,
            !.out = @ \o step.out,
            !.log = Append(@, [converted |-> converted, threw |-> step.threw,
                               out |-> step.out])]

\* Mutant: an exception of the try block ends the operation.
ParseAndWalkFileUncaught ==
  /\ analysis.op # "idle"
  /\ analysis.i <= Len(analysis.files)
  /\ \E converted \in BOOLEAN :
       /\ analysis.files[analysis.i].readable \/ converted
       /\ analysis' =
            IF FileStep(analysis.op, analysis.files[analysis.i], converted).threw
            THEN [analysis EXCEPT !.op = "idle"]
            ELSE AfterFile(analysis, converted,
                           FileStep(analysis.op, analysis.files[analysis.i], converted))
  /\ lastExec' = IF analysis.files[analysis.i].readable
                 THEN <<Cmd("hcl2json", <<>>)>> ELSE <<>>
  /\ returned' = <<>>
  /\ lastResult' = <<>>
  /\ evicted' = <<>>
  /\ UNCHANGED <<target, run, dashboard, now, exited, driftCache, cachedCommand, task,
                 installed, selected, history>>

\* One turn of the loop (lines 42-68, 77-99, 108-134): the file is read, its
\* text goes through the converter or, when that fails, basicHclParse; the
\* tree is walked; an exception is caught and the loop goes on.
ParseAndWalkFile ==
  /\ analysis.op # "idle"
  /\ analysis.i <= Len(analysis.files)
  /\ \E converted \in BOOLEAN :
       /\ analysis.files[analysis.i].readable \/ converted
       /\ analysis' =
            AfterFile(analysis, converted,
                      FileStep(analysis.op, analysis.files[analysis.i], converted))
  /\ lastExec' = IF analysis.files[analysis.i].readable
                 THEN <<Cmd("hcl2json", <<>>)>> ELSE <<>>
  /\ returned' = <<>>
  /\ lastResult' = <<>>
  /\ evicted' = <<>>
  /\ UNCHANGED <<target, run, dashboard, now, exited, driftCache, cachedCommand, task,
                 installed, selected, history>>

\* Lines 70, 101, 136: the loop is over and the list is returned.
AnalysisReturns ==
  /\ analysis.op # "idle"
  /\ analysis.i > Len(analysis.files)
  /\ returned' = <<Ret(analysis.op, "-", <<analysis.out>>)>>
  /\ analysis' = [analysis EXCEPT !.op = "idle"]
  /\ lastExec' = <<>>
  /\ lastResult' = <<>>
  /\ evicted' = <<>>
  /\ UNCHANGED <<target, run, dashboard, now, exited, driftCache, cachedCommand, task,
                 installed, selected, history>>

Init ==
  /\ now = 0
  /\ driftCache = EmptyCache
  /\ cachedCommand = Null
  /\ task = [p \in Callers |-> Idle]
  /\ installed \in SUBSET Tools
  /\ selected = "default"
  /\ exited = {}
  /\ lastExec = <<>>
  /\ lastResult = <<>>
  /\ evicted = <<>>
  /\ returned = <<>>
  /\ lastSelection = Null
  /\ staleSelection = Null
  /\ sinceClear = FALSE
  /\ target = Missing
  /\ run = NotStarted
  /\ dashboard = <<>>
  /\ analysis = NoAnalysis

\* A few outcomes, for the specification that lets time pass.
FewPlanResults ==
  { SpawnResult("2", <<PlanLine(MaxCount, 0, 0) \o <<".">>>>, <<>>),
    SpawnResult("0", <<NoChangesLine>>, <<>>),
    SpawnError(<<"spawnSync ", DriftBinary, " ETIMEDOUT">>) }
FewExecFailures == { ExecError("1", <<"Error: exit status 1">>) }
AllPlanResults == PlanRuns(PlanTexts, DriftBinary)

\* The drift detector's operations on the workspaces ws, with the select
\* failing in one of failures and the plan ending in one of results.
DriftNext(ws, failures, results) ==
  \/ \E p \in Callers, w \in ws : checkDrift(p, w)
  \/ \E p \in Callers, w \in ws : refreshDrift(p, w)
  \/ \E p \in Callers : SelectFailed(p, failures)
  \/ \E p \in Callers : SelectExits(p)
  \/ \E p \in Callers : SelectDonePlan(p, results)
  \/ \E p \in Callers, w \in ws : getCachedDrift(p, w)
  \/ clearCache

\* The drift detector over time.
Next ==
  \/ DriftNext(Workspaces, FewExecFailures, FewPlanResults)
  \/ Tick

Spec == Init /\ [][Next]_vars

\* The drift detector at one instant, over every modelled outcome.
NextParse == DriftNext({OneWorkspace}, ExecRuns, AllPlanResults)

SpecParse == Init /\ [][NextParse]_vars

\* The tool resolver in a changing environment, with drift checks of one
\* workspace.
NextTool ==
  \/ \E p \in Callers : getTerraformCommand(p)
  \/ \E p \in Callers : TofuProbeDone(p)
  \/ \E p \in Callers : TofuProbeFailed(p)
  \/ \E p \in Callers : TerraformProbeDone(p)
  \/ \E p \in Callers : TerraformProbeFailed(p)
  \/ clearTerraformCommandCache
  \/ ChangeTools
  \/ \E p \in Callers : checkDrift(p, OneWorkspace)
  \/ \E p \in Callers : SelectFailed(p, FewExecFailures)
  \/ \E p \in Callers : SelectExits(p)
  \/ \E p \in Callers : SelectDonePlan(p, OnePlanResult)

SpecTool == Init /\ [][NextTool]_vars

\* The workspace manager, resolving its command in a changing environment.
NextWorkspace ==
  \/ \E p \in Callers : getWorkspaces(p)
  \/ \E p \in Callers : getCurrentWorkspace(p)
  \/ \E p \in Callers : TofuProbeDone(p)
  \/ \E p \in Callers : TofuProbeFailed(p)
  \/ \E p \in Callers : TerraformProbeDone(p)
  \/ \E p \in Callers : TerraformProbeFailed(p)
  \/ \E p \in Callers : WorkspaceExecDone(p)
  \/ \E p \in Callers : WorkspaceExecFailed(p)
  \/ clearTerraformCommandCache
  \/ ChangeTools

SpecWorkspace == Init /\ [][NextWorkspace]_vars

\* The caller that is the generate command.
RunCaller == "c1"

\* One run of the generate command on whatever the path names.
NextGenerate ==
  \/ ChangeTarget
  \/ generateDashboard(RunCaller)
  \/ AnalyzeFiles(RunCaller)
  \/ TofuProbeDone(RunCaller)
  \/ TofuProbeFailed(RunCaller)
  \/ TerraformProbeDone(RunCaller)
  \/ TerraformProbeFailed(RunCaller)
  \/ WorkspaceExecDone(RunCaller)
  \/ WorkspaceExecFailed(RunCaller)
  \/ KeepWorkspaces(RunCaller)
  \/ StartDriftChecks(RunCaller)
  \/ WriteDashboard(RunCaller)

SpecGenerate == Init /\ [][NextGenerate]_vars

\* The timeout option of the subprocess a call awaits at position at, in
\* ms; 0 when the call passes none.  (terraform-command.ts lines 25 and 40,
\* state-drift-detector.ts line 38; workspace-manager.ts lines 23-25 and
\* 53-55 pass only cwd.)
ExecTimeout(at) ==
  CASE at \in {"tofu", "terraform"} -> 5000
    [] at = "select" -> 10000
    [] OTHER -> 0

\* A subprocess that does not exit is killed when its timeout expires, and
\* the awaited exec rejects.
KilledAtTimeout(p) ==
  /\ ExecTimeout(task[p].at) > 0
  /\ \/ TofuProbeFailed(p)
     \/ TerraformProbeFailed(p)
     \/ SelectFailed(p, {ExecError("null", <<>>)})

\* The shell does not find the workspace command: the exec rejects at once.
WorkspaceExecMissing(p) ==
  /\ task[p].at = "exec"
  /\ task[p].cmd \notin installed
  /\ WorkspaceExecFailed(p)

\* spawnSync(..., {timeout: 60000}) (line 47) returns when the plan is killed.
PlanKilled == { SpawnError(<<"spawnSync ", DriftBinary, " ETIMEDOUT">>) }

\* The core's operations when no subprocess that starts ever exits by
\* itself (a select may, so that the plan is reached).
NextHang ==
  \/ \E p \in Callers : getTerraformCommand(p)
  \/ \E p \in Callers : getWorkspaces(p)
  \/ \E p \in Callers : getCurrentWorkspace(p)
  \/ \E p \in Callers, w \in Workspaces : checkDrift(p, w)
  \/ \E p \in Callers : KilledAtTimeout(p)
  \/ \E p \in Callers : WorkspaceExecMissing(p)
  \/ \E p \in Callers : SelectExits(p)
  \/ \E p \in Callers : SelectDonePlan(p, PlanKilled)
  \/ clearTerraformCommandCache
  \/ clearCache

\* Timeouts expire and pending callbacks run.
SpecHang ==
  /\ Init /\ [][NextHang]_vars
  /\ \A p \in Callers :
       /\ WF_vars(KilledAtTimeout(p))
       /\ WF_vars(WorkspaceExecMissing(p))
       /\ WF_vars(SelectDonePlan(p, PlanKilled))

\* The analyzer's three operations on every list of files.
NextAnalyzer ==
  \/ getProviders
  \/ getModules
  \/ getResources
  \/ ParseAndWalkFile
  \/ AnalysisReturns

SpecAnalyzer == Init /\ [][NextAnalyzer]_vars

\* ------------------------------------------------------------ properties
HasError(r) == "error" \in DOMAIN r

\* The cache holds an entry for w that is younger than five minutes.
Young(w) ==
  w \in DOMAIN driftCache /\ now - driftCache[w].lastChecked < 5 * 60 * 1000

\* In this step caller p, idle before, has a call of op pending.
Starts(p, op) == task[p] = Idle /\ task'[p].op = op

\* This step is a call of op that returns at once.
ReturnsAtOnce(op) ==
  returned' # <<>> /\ returned'[1].op = op /\ task' = task

\* In this step the drift check caller p had pending completes.
Completes(p) == task[p].at = "select" /\ task'[p] = Idle

\* C1: a checkDrift(w) call made while the cache holds a result for w whose
\* lastChecked is less than 5 minutes old returns that cached result and
\* starts no subprocess (no workspace select, no plan), so that the second
\* of two such calls in sequence does not invoke the external tool.
C1_CachedWithinWindow ==
  [][ \A w \in Workspaces : Young(w) =>
        /\ \A p \in Callers : Starts(p, "checkDrift") => task'[p].ws # w
        /\ (ReturnsAtOnce("checkDrift") /\ returned'[1].ws = w) =>
             /\ returned'[1].value = <<driftCache[w]>>
             /\ lastExec' = <<>>
             /\ driftCache' = driftCache ]_vars

\* A checkDrift call was served an entry stored at an earlier time.
C1_Witness ==
  /\ returned # <<>>
  /\ returned[1].op = "checkDrift"
  /\ returned[1].value # <<>>
  /\ returned[1].value[1].lastChecked < now
  /\ lastExec = <<>>

\* C2: refreshDrift(w) is never served from the cache: whatever the age of
\* the entry for w it deletes the entry and starts the workspace select, the
\* plan follows when the select succeeds, and when the call completes the
\* cache entry for w is the result it returns, stamped with that time.
C2_RefreshAlwaysRuns ==
  [][ /\ ~ReturnsAtOnce("refreshDrift")
      /\ \A p \in Callers : Starts(p, "refreshDrift") =>
           /\ Len(lastExec') = 1
           /\ lastExec'[1].args = <<"workspace", "select", task'[p].ws>>
           /\ task'[p].ws \notin DOMAIN driftCache'
      /\ \A p \in Callers : (Completes(p) /\ task[p].op = "refreshDrift") =>
           /\ lastResult' # <<>>
           /\ ("status" \in DOMAIN lastResult'[1]) =>
                (Len(lastExec') = 1 /\ lastExec'[1].args[1] = "plan")
           /\ returned' # <<>> /\ returned'[1].value # <<>>
           /\ task[p].ws \in DOMAIN driftCache'
           /\ driftCache'[task[p].ws] = returned'[1].value[1]
           /\ driftCache'[task[p].ws].lastChecked = now' ]_vars

\* refreshDrift deleted an entry younger than five minutes and started the
\* select.
C2_Witness ==
  /\ evicted # <<>>
  /\ now - evicted[1].lastChecked < 5 * 60 * 1000
  /\ Len(lastExec) = 1
  /\ lastExec[1].args[1] = "workspace"

\* C5: every drift check that ran the external tool stores the result it
\* returns, error or not, under its workspace with lastChecked the time of
\* completion; and a checkDrift(w) call made while the cache holds an error
\* result for w younger than 5 minutes returns that error result and starts
\* no subprocess.
C5_ErrorResultsCached ==
  [][ /\ \A p \in Callers : Completes(p) =>
           /\ returned' # <<>> /\ returned'[1].value # <<>>
           /\ task[p].ws \in DOMAIN driftCache'
           /\ driftCache'[task[p].ws] = returned'[1].value[1]
           /\ driftCache'[task[p].ws].workspace = task[p].ws
           /\ driftCache'[task[p].ws].lastChecked = now'
      /\ \A w \in Workspaces : (Young(w) /\ HasError(driftCache[w])) =>
           /\ \A p \in Callers : Starts(p, "checkDrift") => task'[p].ws # w
           /\ (ReturnsAtOnce("checkDrift") /\ returned'[1].ws = w) =>
                /\ returned'[1].value = <<driftCache[w]>>
                /\ HasError(returned'[1].value[1])
                /\ lastExec' = <<>> ]_vars

\* A checkDrift call was served an error result stored at an earlier time.
C5_Witness ==
  /\ returned # <<>>
  /\ returned[1].op = "checkDrift"
  /\ returned[1].value # <<>>
  /\ HasError(returned[1].value[1])
  /\ returned[1].value[1].lastChecked < now
  /\ lastExec = <<>>

NoChanges == [add |-> 0, change |-> 0, destroy |-> 0]

\* The latest step consumed the result of a plan subprocess.
PlanEnded == lastResult # <<>> /\ "status" \in DOMAIN lastResult[1]

\* The latest step consumed the rejection of the workspace select.
SelectRejected == lastResult # <<>> /\ "ok" \in DOMAIN lastResult[1]

\* The DriftResult the latest step returned.
Result == returned[1].value[1]

\* C3: checkDrift always returns a DriftResult, and when the workspace
\* select failed (non-zero exit, timeout, missing binary) or the plan failed
\* (timeout, spawn error, exit code other than 0 and 2) that result has
\* hasDrift false, changes (0, 0, 0) and a non-empty error.
C3_FailuresBecomeErrorResults ==
  /\ lastResult # <<>> =>
       /\ returned # <<>>
       /\ returned[1].op \in {"checkDrift", "refreshDrift"}
       /\ returned[1].value # <<>>
  /\ (SelectRejected \/ (PlanEnded /\ lastResult[1].status \notin {"0", "2"})) =>
       /\ Result.hasDrift = FALSE
       /\ Result.changes = NoChanges
       /\ HasError(Result)
       /\ Result.error # <<>>

\* A plan that timed out was turned into an error result.
C3_Witness ==
  /\ PlanEnded
  /\ "error" \in DOMAIN lastResult[1]
  /\ lastResult[1].error.message[3] = " ETIMEDOUT"
  /\ HasError(Result)
  /\ Result.hasDrift = FALSE

\* A DriftResult without error states drift exactly when one of its counts is
\* positive, and its counts are natural numbers.
Consistent(r) ==
  HasError(r) \/
    /\ r.changes.add \in Nat /\ r.changes.change \in Nat /\ r.changes.destroy \in Nat
    /\ r.hasDrift = (r.changes.add > 0 \/ r.changes.change > 0 \/ r.changes.destroy > 0)

\* C4: every DriftResult without an error field, returned by checkDrift,
\* refreshDrift or getCachedDrift or held in the cache, has
\* hasDrift = (add > 0 or change > 0 or destroy > 0) with natural counts.
C4_HasDriftMatchesCounts ==
  /\ \A w \in DOMAIN driftCache : Consistent(driftCache[w])
  /\ (returned # <<>> /\ returned[1].value # <<>>
        /\ returned[1].op \in {"checkDrift", "refreshDrift", "getCachedDrift"})
       => Consistent(Result)

\* The cache holds a result that has drift with nothing to add.
C4_Witness ==
  \E w \in DOMAIN driftCache :
    /\ ~HasError(driftCache[w])
    /\ driftCache[w].hasDrift
    /\ driftCache[w].changes.add = 0

\* C6: a plan that ends with exit code 0 or 2 gives a result without error
\* whose hasDrift is true exactly when the exit code is 2, whatever the plan
\* printed; any other end of the plan gives an error result.
C6_ExitCodeDecidesDrift ==
  PlanEnded =>
    IF lastResult[1].status \in {"0", "2"}
    THEN ~HasError(Result) /\ Result.hasDrift = (lastResult[1].status = "2")
    ELSE HasError(Result)

\* C7, as stated: when the workspace select fails the plan is still run.
C7_PlanRunsAfterFailedSelect ==
  SelectRejected => (Len(lastExec) = 1 /\ lastExec[1].args[1] = "plan")

\* C7, amended: when the workspace select fails the check stops there: no
\* plan is run, and the result returned and stored is an error result made
\* from the select's failure; a plan runs only after a successful select.
C7_FailedSelectStopsCheck ==
  /\ SelectRejected =>
       /\ lastExec = <<>>
       /\ HasError(Result)
       /\ Result.error \in
            { <<"Drift check failed: ">> \o lastResult[1].stderr,
              <<"Drift check failed: ">> \o lastResult[1].message }
       /\ driftCache[returned[1].ws] = Result
  /\ (Len(lastExec) = 1 /\ lastExec[1].args[1] = "plan") => PlanEnded

\* A select that failed ended the check with an error result.
C7_Witness ==
  /\ SelectRejected
  /\ lastExec = <<>>
  /\ HasError(Result)

\* C8: the subprocesses of a drift check (workspace select, plan) run the
\* command the tool resolver selected: with tofu selected they run tofu.
C8_DriftUsesResolvedCommand ==
  \A i \in 1..Len(lastExec) :
    (cachedCommand # Null /\ lastExec[i].args[1] \in {"workspace", "plan"})
      => lastExec[i].bin = cachedCommand.command

\* The selection the latest step returned.
Selected == returned[1].value[1]

\* C9: once a getTerraformCommand call has completed, and until the cache is
\* cleared, a getTerraformCommand call returns at once the selection the
\* call before it returned and starts no probe, whatever tools are installed
\* by then.
C9_ResolveIsCached ==
  [][ sinceClear =>
        /\ \A p \in Callers : task'[p].at = "tofu" => task[p].at = "tofu"
        /\ \A p \in Callers : ~Starts(p, "getTerraformCommand")
        /\ ReturnsAtOnce("getTerraformCommand") =>
             /\ returned'[1].value = <<lastSelection>>
             /\ lastExec' = <<>>
             /\ cachedCommand' = cachedCommand ]_vars

\* A call was answered with the tofu selection while tofu is not installed.
C9_Witness ==
  /\ returned # <<>>
  /\ returned[1].op = "getTerraformCommand"
  /\ Selected.command = "tofu"
  /\ "tofu" \notin installed
  /\ lastExec = <<>>

\* C10: after clearTerraformCommandCache, and until a call has completed, a
\* getTerraformCommand call does not return at once: it starts the probe
\* sequence with "tofu version"; and the selection a probe sequence ends with
\* is the one the probes give then: tofu only when tofu is installed, a
\* version only for an installed tool, and it becomes the cached selection.
C10_ClearForcesReprobe ==
  [][ /\ ~sinceClear =>
           /\ ~ReturnsAtOnce("getTerraformCommand")
           /\ \A p \in Callers : Starts(p, "getTerraformCommand") =>
                lastExec' = <<Cmd("tofu", <<"version">>)>>
      /\ \A p \in Callers :
           (task[p].op = "getTerraformCommand" /\ task'[p] = Idle) =>
             /\ returned' # <<>> /\ returned'[1].value # <<>>
             /\ returned'[1].value[1].command = "tofu" => "tofu" \in installed'
             /\ "version" \in DOMAIN returned'[1].value[1] =>
                  returned'[1].value[1].command \in installed'
             /\ cachedCommand' = returned'[1].value[1] ]_vars

\* After a clear that dropped the selection of a tool since removed, a probe
\* sequence returned another, installed tool.
C10_Witness ==
  /\ returned # <<>>
  /\ returned[1].op = "getTerraformCommand"
  /\ staleSelection # Null
  /\ staleSelection.command \notin installed
  /\ Selected.command \in installed
  /\ Selected.command # staleSelection.command
  /\ cachedCommand = Selected

\* The latest step consumed the output of a successful version probe.
ProbeSucceeded == lastResult # <<>> /\ DOMAIN lastResult[1] = {"stdout"}

\* In this step the probe of tool that caller p awaited ends the probe
\* sequence, with success or without.
ProbeEnds(p, tool) == task[p].at = tool /\ task'[p].at \notin {"tofu", "terraform"}

VersionProbe(tool) == Cmd(tool, <<"version">>)

\* C11: getTerraformCommand probes tofu first; whenever the tofu probe
\* succeeds, also with both tools installed, the selection returned and
\* cached is command tofu, type opentofu, and no terraform probe is started:
\* a terraform probe starts only in a step where a tofu probe failed.
C11_TofuPreferred ==
  [][ /\ \A p \in Callers :
           (task[p] = Idle /\ task'[p].at \in {"tofu", "terraform"}) =>
             lastExec' = <<VersionProbe("tofu")>>
      /\ \A p \in Callers : ProbeEnds(p, "tofu") =>
           /\ returned' # <<>> /\ returned'[1].value # <<>>
           /\ returned'[1].value[1].command = "tofu"
           /\ returned'[1].value[1].type = "opentofu"
           /\ cachedCommand' = returned'[1].value[1]
           /\ lastExec' = <<>>
      /\ (\E i \in 1..Len(lastExec') : lastExec'[i] = VersionProbe("terraform")) =>
           \E p \in Callers : task[p].at = "tofu" /\ task'[p].at = "terraform" ]_vars

\* With both tools installed a probe sequence returned the tofu selection.
C11_Witness ==
  /\ ProbeSucceeded
  /\ returned # <<>>
  /\ Selected.command = "tofu"
  /\ Selected.type = "opentofu"
  /\ installed = {"tofu", "terraform"}

\* The tokens sub occur in text, one after the other.
Occurs(sub, text) ==
  \E i \in 1..(Len(text) - Len(sub) + 1) : SubSeq(text, i, i + Len(sub) - 1) = sub

\* C12: when the tofu probe failed and the terraform probe succeeds, the
\* selection returned and cached is command terraform, type terraform, with
\* the version that follows "Terraform v" in the probe's output (no version
\* when the output has no such text).
C12_TerraformFallback ==
  [][ \A p \in Callers : (ProbeEnds(p, "terraform") /\ lastResult' # <<>>) =>
        /\ returned' # <<>> /\ returned'[1].value # <<>>
        /\ returned'[1].value[1].command = "terraform"
        /\ returned'[1].value[1].type = "terraform"
        /\ cachedCommand' = returned'[1].value[1]
        /\ IF \E d \in Digits : Occurs(<<"Terraform v", d>>, lastResult'[1].stdout)
           THEN /\ "version" \in DOMAIN returned'[1].value[1]
                /\ Occurs(<<"Terraform v">> \o returned'[1].value[1].version
                            \o <<"\n">>, lastResult'[1].stdout)
           ELSE "version" \notin DOMAIN returned'[1].value[1] ]_vars

\* With tofu missing, a terraform probe gave the selection its version.
C12_Witness ==
  /\ ProbeSucceeded
  /\ returned # <<>>
  /\ Selected.command = "terraform"
  /\ "version" \in DOMAIN Selected
  /\ Selected.version = <<"1", ".", "5">>
  /\ "tofu" \notin installed

\* C13: when both probes fail getTerraformCommand still returns a value:
\* the selection command terraform, type terraform, without a version, which
\* it caches; it starts no further subprocess.
C13_DefaultWhenBothFail ==
  [][ \A p \in Callers : (ProbeEnds(p, "terraform") /\ lastResult' = <<>>) =>
        /\ returned' # <<>> /\ returned'[1].value # <<>>
        /\ returned'[1].value[1] = [command |-> "terraform", type |-> "terraform"]
        /\ "version" \notin DOMAIN returned'[1].value[1]
        /\ cachedCommand' = returned'[1].value[1]
        /\ lastExec' = <<>> ]_vars

\* With no tool installed a probe sequence returned the default selection.
C13_Witness ==
  /\ returned # <<>>
  /\ returned[1].op = "getTerraformCommand"
  /\ Selected = [command |-> "terraform", type |-> "terraform"]
  /\ cachedCommand = Selected
  /\ installed = {}
  /\ lastResult = <<>>

WorkspaceOps == {"getWorkspaces", "getCurrentWorkspace"}

\* The latest step consumed the rejection of a subprocess.
Rejected == lastResult # <<>> /\ "ok" \in DOMAIN lastResult[1]

\* C14: getWorkspaces and getCurrentWorkspace always end by returning a
\* value, and only after their workspace subprocess ended (a failed probe
\* does not end them); when that subprocess fails (missing binary, non-zero
\* exit, killed) getWorkspaces returns the empty list and getCurrentWorkspace
\* returns null.
C14_EnumeratorNeverThrows ==
  [][ \A p \in Callers : (task[p].op \in WorkspaceOps /\ task'[p] = Idle) =>
        /\ task[p].at = "exec"
        /\ returned' # <<>>
        /\ returned'[1].op = task[p].op
        /\ ("ok" \in DOMAIN lastResult'[1]) =>
             returned'[1].value =
               (IF task[p].op = "getWorkspaces" THEN <<<<>>>> ELSE <<>>) ]_vars

\* With no tool installed getWorkspaces returned the empty list.
C14_Witness ==
  /\ Rejected
  /\ lastResult[1].code = "127"
  /\ returned # <<>>
  /\ returned[1].op = "getWorkspaces"
  /\ returned[1].value = <<<<>>>>
  /\ installed = {}

\* C15: in every list getWorkspaces returns at most one workspace has
\* isCurrent true, and each workspace has state active exactly when
\* isCurrent is true, for any text the tool prints.
C15_AtMostOneCurrent ==
  (returned # <<>> /\ returned[1].op = "getWorkspaces") =>
    /\ \A i, j \in 1..Len(returned[1].value[1]) :
         (returned[1].value[1][i].isCurrent /\ returned[1].value[1][j].isCurrent)
           => i = j
    /\ \A i \in 1..Len(returned[1].value[1]) :
         (returned[1].value[1][i].state = "active") = returned[1].value[1][i].isCurrent

\* The path names a directory that holds a file the analyzer reads.
HoldsConfiguration ==
  target.kind = "dir" /\ \E f \in target.entries : f[2] \in {".tf", ".tfvars", ".hcl"}

\* The path names a directory that holds an entry the validation accepts.
HoldsTerraformEntry ==
  /\ target.kind = "dir"
  /\ \E f \in target.entries :
       \/ f[2] \in {".tf", ".tfvars", ".hcl"}
       \/ f \in {<<"terraform", ".tfstate">>, <<"", ".terraform">>}

\* This step is the validation of a run that fails: the run ends with an
\* error, starts no subprocess and no call, and writes no file.
FailsAtOnce ==
  /\ run'.phase = "failed"
  /\ returned' # <<>> /\ returned'[1].value # <<>> /\ returned'[1].value[1] # <<>>
  /\ lastExec' = <<>>
  /\ task' = task
  /\ dashboard' = <<>>

Parsed == PlanEnded /\ lastResult[1].status \in {"0", "2"}

\* The counts a summary line may state.
StatedCounts == Counts \cup {12}

\* The forms of the summary line for the counts a, c and d: plain or with
\* colour codes, around the line or after "Plan:".
SummaryLines(a, c, d) ==
  { PlanLine(a, c, d), PlanLine(a, c, d) \o <<".">>,
    <<"ESC[1m">> \o PlanLine(a, c, d) \o <<".", "ESC[0m">>,
    <<"ESC[1m", "Plan:", "ESC[0m", " ">> \o ToDigits(a) \o <<" to add, ">>
      \o ToDigits(c) \o <<" to change, ">> \o ToDigits(d) \o <<" to destroy", ".">> }

\* C19: when the text a plan printed has a summary line "Plan: a to add, c
\* to change, d to destroy", with or without colour codes, the result has
\* changes (a, c, d) and hasDrift = (a + c + d > 0); when it has no line
\* with "Plan:" and has a "No changes" or "No differences" phrase the result
\* has changes (0, 0, 0) and hasDrift false.
C19_SummaryLineParsed ==
  Parsed =>
    /\ \A a \in StatedCounts, c \in StatedCounts, d \in StatedCounts :
         (\E i \in 1..Len(lastResult[1].stdout) :
             lastResult[1].stdout[i] \in SummaryLines(a, c, d)) =>
           /\ Result.changes = [add |-> a, change |-> c, destroy |-> d]
           /\ Result.hasDrift = (a + c + d > 0)
    /\ ( /\ \A i \in 1..Len(lastResult[1].stdout) :
              \A j \in 1..Len(lastResult[1].stdout[i]) :
                lastResult[1].stdout[i][j] # "Plan:"
         /\ \E i \in 1..Len(lastResult[1].stdout) :
              \E j \in 1..Len(lastResult[1].stdout[i]) :
                lastResult[1].stdout[i][j] \in {"No changes", "No differences"} ) =>
         /\ Result.changes = [add |-> 0, change |-> 0, destroy |-> 0]
         /\ Result.hasDrift = FALSE

\* A summary line with "Plan:" in bold and a count of two digits was parsed.
C19_Witness ==
  /\ Parsed
  /\ \E i \in 1..Len(lastResult[1].stdout) :
       /\ lastResult[1].stdout[i][1] = "ESC[1m"
       /\ lastResult[1].stdout[i][3] = "ESC[0m"
  /\ Result.changes.destroy = 12
  /\ Result.hasDrift

AnalyzerOps == {"getProviders", "getModules", "getResources"}

\* The names of the entities of a list, in order.
Names(entities) == [k \in 1..Len(entities) |-> entities[k].name]

\* The names a file declares for an operation.
Declared(file, op) ==
  IF op = "getProviders" THEN file.providers
  ELSE IF op = "getModules" THEN file.modules
  ELSE file.resources

\* C16: when the converter fails for a file, parsing falls back without an
\* exception and the operation still gets the names the file declares: one
\* Provider per name in required_providers from getProviders, one Module per
\* module block from getModules.
C16_FallbackKeepsNames ==
  analysis.op \in {"getProviders", "getModules"} =>
    \A i \in 1..Len(analysis.log) :
      (analysis.files[i].readable /\ ~analysis.log[i].converted) =>
        /\ ~analysis.log[i].threw
        /\ Names(analysis.log[i].out) = Declared(analysis.files[i], analysis.op)

\* What the files of a log pushed, one after the other.
RECURSIVE Pushed(_)
Pushed(log) == IF log = <<>> THEN <<>> ELSE log[1].out \o Pushed(Tail(log))

\* C17: getProviders, getModules and getResources end only by returning a
\* list, after the loop has gone over every file; a file that cannot be
\* read or whose walk throws adds at most what was pushed before the
\* exception, and every file that is read, converted and walked without an
\* exception, before or after such a file, adds the entities it declares, in
\* the order of the files.
C17_FailuresSkipOneFile ==
  /\ (analysis.op = "idle" /\ analysis.files # <<>>) =>
       /\ returned # <<>>
       /\ returned[1].op \in AnalyzerOps
       /\ returned[1].value # <<>>
  /\ (returned # <<>> /\ returned[1].op \in AnalyzerOps) =>
       /\ Len(analysis.log) = Len(analysis.files)
       /\ returned[1].value[1] = Pushed(analysis.log)
       /\ \A i \in 1..Len(analysis.files) :
            IF analysis.files[i].readable /\ ~analysis.log[i].threw
            THEN analysis.log[i].converted =>
                   Names(analysis.log[i].out)
                     = Declared(analysis.files[i], returned[1].op)
            ELSE analysis.log[i].threw

\* getProviders returned the providers of the first and third file, the
\* second being unreadable.
C17_Witness ==
  /\ returned # <<>>
  /\ returned[1].op = "getProviders"
  /\ Len(analysis.files) = 3
  /\ ~analysis.files[2].readable
  /\ analysis.log[2].threw
  /\ Names(returned[1].value[1]) = <<<<"aws">>, <<"aws">>>>

\* C20: the dependencies of a resource whose configuration interpolates the
\* expressions x, y and z (in an attribute, in a string of a map, in strings
\* of nested lists, x and y twice) are those of x, y and z that include a
\* '.', each once.
C20_DependenciesAreDottedRefs ==
  (returned # <<>> /\ returned[1].op = "getResources") =>
    \A k \in 1..Len(returned[1].value[1]) :
      \A x \in Exprs, y \in Exprs, z \in Exprs :
        returned[1].value[1][k].configuration = Config(x, y, z) =>
          /\ {returned[1].value[1][k].dependencies[n] :
                n \in 1..Len(returned[1].value[1][k].dependencies)}
               = {e \in {x, y, z} : \E n \in 1..Len(e) : e[n] = "."}
          /\ Len(returned[1].value[1][k].dependencies)
               = Cardinality({e \in {x, y, z} : \E n \in 1..Len(e) : e[n] = "."})

\* A resource that interpolates two references, both twice, and a call
\* without a '.' has the two references as its dependencies.
C20_Witness ==
  /\ returned # <<>>
  /\ returned[1].op = "getResources"
  /\ Len(returned[1].value[1]) = 1
  /\ returned[1].value[1][1].configuration
       = Config(<<"aws_instance", ".", "web", ".", "id">>, <<"var", ".", "region">>,
                <<"upper()">>)
  /\ returned[1].value[1][1].dependencies
       = << <<"aws_instance", ".", "web", ".", "id">>, <<"var", ".", "region">> >>

\* C21: a checkDrift(w) call made while the cache holds no entry for w, or
\* one that is five minutes old or older, is not answered from the cache: it
\* starts the workspace select of w, and when the check completes the entry
\* for w is the result it returns, stamped with the time of completion.
C21_StaleEntryIsRecomputed ==
  [][ \A w \in Workspaces :
        /\ ~Young(w) =>
             /\ ~(ReturnsAtOnce("checkDrift") /\ returned'[1].ws = w)
             /\ \A p \in Callers :
                  (Starts(p, "checkDrift") /\ task'[p].ws = w) =>
                    /\ lastExec' = <<Cmd(DriftBinary, <<"workspace", "select", w>>)>>
                    /\ returned' = <<>>
        /\ \A p \in Callers :
             (Completes(p) /\ task[p].op = "checkDrift" /\ task[p].ws = w) =>
               /\ lastResult' # <<>>
               /\ returned' # <<>> /\ returned'[1].value # <<>>
               /\ w \in DOMAIN driftCache'
               /\ driftCache'[w] = returned'[1].value[1]
               /\ driftCache'[w].lastChecked = now' ]_vars

\* A checkDrift call has started the select of a workspace whose entry is
\* exactly five minutes old.
C21_Witness ==
  \E p \in Callers :
    /\ task[p].op = "checkDrift"
    /\ task[p].at = "select"
    /\ lastExec = <<Cmd(DriftBinary, <<"workspace", "select", task[p].ws>>)>>
    /\ task[p].ws \in DOMAIN driftCache
    /\ now - driftCache[task[p].ws].lastChecked = 5 * 60 * 1000

\* C22: drift checks of different workspaces that are in flight together do
\* not disturb each other: the result a check stores under its workspace
\* comes from a plan that ran while that workspace was the one selected.
C22_PlanRunsInOwnWorkspace ==
  (PlanEnded /\ returned # <<>>) => selected = returned[1].ws

\* C23: no two drift checks of one workspace are in flight together.
C23_OneCheckPerWorkspace ==
  \A p, q \in Callers :
    (p # q /\ task[p].at = "select" /\ task[q].at = "select")
      => task[p].ws # task[q].ws

\* The entry of w, as a sequence: empty when the cache holds none.
EntryOf(cache, w) == IF w \in DOMAIN cache THEN <<cache[w]>> ELSE <<>>

\* This step is clearCache.
Clears == driftCache' = EmptyCache /\ task' = task /\ returned' = <<>>

\* C27: the cache entry of a workspace w is created, replaced or deleted only
\* by the completion of a check of w, by the delete of refreshDrift(w), or by
\* clearCache; a check or refresh of one workspace leaves the entries of all
\* the others as they are, also while checks of several workspaces are in
\* flight.
C27_OnlyOwnEntryChanges ==
  [][ /\ \A w \in Workspaces :
           EntryOf(driftCache', w) # EntryOf(driftCache, w) =>
             \/ \E p \in Callers : Completes(p) /\ task[p].ws = w
             \/ \E p \in Callers : Starts(p, "refreshDrift") /\ task'[p].ws = w
             \/ Clears
      /\ \A p \in Callers, w \in Workspaces :
           ((Completes(p) /\ task[p].ws # w) \/
            ((Starts(p, "checkDrift") \/ Starts(p, "refreshDrift")) /\ task'[p].ws # w))
             => EntryOf(driftCache', w) = EntryOf(driftCache, w) ]_vars

\* A check completed and stored its result while the cache held an older
\* entry of the other workspace and that workspace's check was in flight.
C27_Witness ==
  /\ returned # <<>>
  /\ lastResult # <<>>
  /\ returned[1].value # <<>>
  /\ \E w \in DOMAIN driftCache \ {returned[1].ws} :
       /\ driftCache[w].lastChecked < now
       /\ \E q \in Callers : task[q].at = "select" /\ task[q].ws = w

\* C28: the select of a drift check makes its workspace the tool's current
\* one, whatever it was before, and nothing restores it: not the plan, not
\* the return of the check, not any other operation; a checkDrift answered
\* from the cache leaves the current workspace as it is.
C28_SelectionIsNotRestored ==
  [][ /\ \A p \in Callers : (p \in exited' /\ p \notin exited) =>
           selected' = task[p].ws
      /\ (exited' \subseteq exited) => selected' = selected
      /\ \A p \in Callers : (Completes(p) /\ p \in exited) =>
           /\ selected' = selected
           /\ "status" \in DOMAIN lastResult'[1]
      /\ ReturnsAtOnce("checkDrift") => selected' = selected ]_vars

\* A check of dev has returned the result of its plan and dev is still the
\* current workspace, while the process started with default selected.
C28_Witness ==
  /\ PlanEnded
  /\ returned # <<>>
  /\ returned[1].op = "checkDrift"
  /\ returned[1].ws = "dev"
  /\ selected = "dev"

\* C30: getCachedDrift(w) returns at once the entry the cache holds for w,
\* whatever its age, or nothing when the cache holds none; it starts no
\* subprocess and leaves the cache as it is.
C30_GetCachedDriftReadsOnly ==
  [][ /\ \A p \in Callers : ~Starts(p, "getCachedDrift")
      /\ ReturnsAtOnce("getCachedDrift") =>
           /\ returned'[1].value = EntryOf(driftCache, returned'[1].ws)
           /\ lastExec' = <<>>
           /\ driftCache' = driftCache ]_vars

\* getCachedDrift returned an entry that is five minutes old.
C30_Witness ==
  /\ returned # <<>>
  /\ returned[1].op = "getCachedDrift"
  /\ returned[1].value # <<>>
  /\ now - returned[1].value[1].lastChecked >= 5 * 60 * 1000
  /\ lastExec = <<>>

Probes == {"tofu", "terraform"}

\* C24: of the getTerraformCommand calls made before a selection is cached
\* at most one runs the probe sequence.
C24_OneProbeSequence ==
  \A p, q \in Callers :
    p # q => ~(task[p].at \in Probes /\ task[q].at \in Probes)

\* C25: every operation of the core returns in the end, also when the
\* subprocess it started never exits.
C25_EveryOperationReturns ==
  \A p \in Callers : (task[p] # Idle) ~> (task[p] = Idle)

\* The process the latest step's result came from was killed at its timeout.
TimedOut(res) ==
  IF "ok" \in DOMAIN res THEN res.code = "null"
  ELSE "error" \in DOMAIN res /\ res.error.message[3] = " ETIMEDOUT"

TimeoutMessage == <<"Drift check timed out - Terraform plan took too long">>

\* C26: the error of a failed drift check is the timeout message exactly
\* when the select or the plan was killed at its timeout; a spawn or
\* execution error and a failed exit with stderr give other messages.
C26_TimeoutHasOwnMessage ==
  (lastResult # <<>> /\ returned # <<>> /\ HasError(Result)) =>
    (TimedOut(lastResult[1]) <=> Result.error = TimeoutMessage)

\* C29: when both probes fail the default selection (terraform, no version)
\* is stored; while it is the cached selection every getTerraformCommand
\* call returns it at once and starts no probe, whatever tools are installed
\* by then; and it stays cached until clearTerraformCommandCache or the end
\* of a probe sequence that was already under way.
C29_DefaultIsCached ==
  [][ /\ \A p \in Callers :
           (ProbeEnds(p, "terraform") /\ lastResult' = <<>>) =>
             /\ cachedCommand' = DefaultSelection
             /\ "version" \notin DOMAIN cachedCommand'
      /\ cachedCommand = DefaultSelection =>
           /\ \A p \in Callers : ~Starts(p, "getTerraformCommand")
           /\ ReturnsAtOnce("getTerraformCommand") =>
                /\ returned'[1].value = <<DefaultSelection>>
                /\ lastExec' = <<>>
           /\ cachedCommand' # cachedCommand =>
                \/ cachedCommand' = Null /\ ~sinceClear' /\ task' = task
                \/ \E p \in Callers : task[p].at \in Probes /\ task'[p] = Idle ]_vars

\* A call was answered at once with the default selection although tofu is
\* installed and terraform is not.
C29_Witness ==
  /\ returned # <<>>
  /\ returned[1].op = "getTerraformCommand"
  /\ lastExec = <<>>
  /\ lastResult = <<>>
  /\ Selected = DefaultSelection
  /\ cachedCommand = DefaultSelection
  /\ installed = {"tofu"}
  /\ \A p \in Callers : task[p] = Idle

====
